---- MODULE Spec2Model ----
(***************************************************************************)
(* Murmur proxy (proxy/src/index.ts): the stateless relay that verifies an *)
(* HMAC-signed request and forwards it to the upstream provider.           *)
(*                                                                         *)
(* Strings that the code inspects character by character (header values)   *)
(* are sequences of one-character strings; byte buffers are sequences of   *)
(* numbers 0..255.                                                         *)
(***************************************************************************)
EXTENDS Integers, Sequences, FiniteSets, TLC

(***************************************************************************)
(* Characters and strings                                                  *)
(***************************************************************************)

\* String.prototype.charCodeAt for the characters the model uses.
CharCodes ==
    [c \in {"0","1","2","3","4","5","6","7","8","9"} |->
        CASE c = "0" -> 48 [] c = "1" -> 49 [] c = "2" -> 50 [] c = "3" -> 51
          [] c = "4" -> 52 [] c = "5" -> 53 [] c = "6" -> 54 [] c = "7" -> 55
          [] c = "8" -> 56 [] c = "9" -> 57]
    @@ [c \in {"a","b","c","d","e","f"} |->
        CASE c = "a" -> 97 [] c = "b" -> 98 [] c = "c" -> 99 [] c = "d" -> 100
          [] c = "e" -> 101 [] c = "f" -> 102]
    @@ [c \in {"A","B","C","D","E","F"} |->
        CASE c = "A" -> 65 [] c = "B" -> 66 [] c = "C" -> 67 [] c = "D" -> 68
          [] c = "E" -> 69 [] c = "F" -> 70]
    @@ [c \in {":", "-", " ", "x", "n", "k", "s", "g", "_"} |->
        CASE c = ":" -> 58 [] c = "-" -> 45 [] c = " " -> 32 [] c = "x" -> 120
          [] c = "n" -> 110 [] c = "k" -> 107 [] c = "s" -> 115 [] c = "g" -> 103
          [] c = "_" -> 95]
    @@ [c \in {"l", "m", "o", "r", "t", "u", "w", "."} |->
        CASE c = "l" -> 108 [] c = "m" -> 109 [] c = "o" -> 111 [] c = "r" -> 114
          [] c = "t" -> 116 [] c = "u" -> 117 [] c = "w" -> 119 [] c = "." -> 46]

charCodeAt(str, i) == CharCodes[str[i]]

\* TextEncoder.encode: UTF-8 of a string of ASCII characters.
encode(str) == [i \in 1..Len(str) |-> CharCodes[str[i]]]

\* Number.prototype.toString(16).padStart(2, '0') of one byte, then join('').
HexDigits == <<"0","1","2","3","4","5","6","7","8","9","a","b","c","d","e","f">>

toHex(bytes) ==
    [i \in 1..(2 * Len(bytes)) |->
        IF i % 2 = 1 THEN HexDigits[(bytes[(i + 1) \div 2] \div 16) + 1]
                     ELSE HexDigits[(bytes[i \div 2] % 16) + 1]]

\* The value of a character as a digit (parseInt), 99 when it is none.
DigitValue(c) ==
    IF c \in {"0","1","2","3","4","5","6","7","8","9"} THEN CharCodes[c] - 48
    ELSE IF c \in {"a","b","c","d","e","f"} THEN CharCodes[c] - 87
    ELSE IF c \in {"A","B","C","D","E","F"} THEN CharCodes[c] - 55
    ELSE 99

RECURSIVE ParseDigits(_, _, _, _, _)
\* The longest prefix of str from position i that is digits of the radix:
\* [n |-> how many digits, v |-> their value].
ParseDigits(str, i, radix, n, v) ==
    IF i > Len(str) \/ DigitValue(str[i]) >= radix
    THEN [n |-> n, v |-> v]
    ELSE ParseDigits(str, i + 1, radix, n + 1, v * radix + DigitValue(str[i]))

RECURSIVE SkipSpaces(_, _)
SkipSpaces(str, i) ==
    IF i <= Len(str) /\ str[i] = " " THEN SkipSpaces(str, i + 1) ELSE i

\* parseInt(str, radix); radix 0 stands for "no radix given". The result is
\* [nan |-> TRUE] for NaN and [nan |-> FALSE, v |-> the number] otherwise.
parseInt(str, radix) ==
    LET i0   == SkipSpaces(str, 1)
        neg  == i0 <= Len(str) /\ str[i0] = "-"
        i1   == IF neg THEN i0 + 1 ELSE i0
        hex  == /\ radix \in {0, 16}
                /\ i1 + 1 <= Len(str)
                /\ str[i1] = "0"
                /\ str[i1 + 1] \in {"x"}
        r    == IF hex THEN 16 ELSE IF radix = 0 THEN 10 ELSE radix
        i2   == IF hex THEN i1 + 2 ELSE i1
        d    == ParseDigits(str, i2, r, 0, 0)
    IN  IF d.n = 0 THEN [nan |-> TRUE, v |-> 0]
        ELSE [nan |-> FALSE, v |-> IF neg THEN 0 - d.v ELSE d.v]

RECURSIVE DigitsOf(_)
DigitsOf(n) ==
    IF n < 10 THEN <<HexDigits[n + 1]>>
    ELSE Append(DigitsOf(n \div 10), HexDigits[(n % 10) + 1])

\* Number to decimal string, as a client writes its timestamp.
numToString(n) == IF n < 0 THEN <<"-">> \o DigitsOf(0 - n) ELSE DigitsOf(n)

\* String.prototype.includes.
includes(str, needle) ==
    \E i \in 1..(Len(str) - Len(needle) + 1) :
        \A j \in 1..Len(needle) : str[i + j - 1] = needle[j]

(***************************************************************************)
(* Header values                                                           *)
(***************************************************************************)
\* null, as Headers.get(name) gives it for a header the request does not carry.
Null == <<"null">>

headersGet(headers, name) == IF name \in DOMAIN headers THEN headers[name] ELSE Null

\* !value for a string-or-null value: null or the empty string.
Not(value) == value = Null \/ Len(value) = 0

(***************************************************************************)
(* Bit operations on char codes (16-bit code units)                         *)
(***************************************************************************)
RECURSIVE BitXor(_, _)
BitXor(a, b) ==
    IF a = 0 /\ b = 0 THEN 0
    ELSE ((a + b) % 2) + 2 * BitXor(a \div 2, b \div 2)

RECURSIVE BitOr(_, _)
BitOr(a, b) ==
    IF a = 0 /\ b = 0 THEN 0
    ELSE (IF a % 2 = 1 \/ b % 2 = 1 THEN 1 ELSE 0) + 2 * BitOr(a \div 2, b \div 2)

(***************************************************************************)
(* crypto.subtle: SHA-256 and HMAC-SHA256                                   *)
(*                                                                         *)
(* The digests are computed by a keyed rolling hash that is deterministic, *)
(* has a fixed output length and is collision-free on the inputs the model *)
(* draws (NoDigestCollision states it): what the proxy relies on.          *)
(***************************************************************************)
DigestLen == 32

HashModulus == 2^26 - 5

RECURSIVE Roll(_, _, _, _)
\* The bytes lo..hi absorbed into h, one after the other. It is evaluated by
\* halves, the left half first (the test h >= 0 makes TLC compute h before it
\* goes on), which keeps the evaluation shallow.
Roll(bytes, lo, hi, h) ==
    IF lo > hi \/ h < 0 THEN h
    ELSE IF lo = hi THEN (h * 31 + bytes[lo] + 1) % HashModulus
    ELSE LET mid == (lo + hi) \div 2
         IN  Roll(bytes, mid + 1, hi, Roll(bytes, lo, mid, h))

DigestBytes(h) == [i \in 1..DigestLen |-> (h \div (256 ^ ((i - 1) % 4))) % 256]

\* crypto.subtle.digest('SHA-256', bytes)
SHA256(bytes) == DigestBytes(Roll(bytes, 1, Len(bytes), 7))

\* crypto.subtle.sign('HMAC', key, message), key imported from keyData
HMAC(keyData, message) ==
    DigestBytes(Roll(message, 1, Len(message), Roll(keyData, 1, Len(keyData), 11) + 13))

\* hashIP with the signing secret as the salt of last resort.
hashIP_secretSalt(ip, env) ==
    LET salt == IF Len(env.IP_HASH_SALT) = 0 THEN env.MURMUR_APP_SECRET
                ELSE env.IP_HASH_SALT
    IN  SubSeq(toHex(SHA256(encode(salt \o ip))), 1, 16)

\* Lines 40-48: the first 8 bytes, in hex, of SHA-256(salt + ip).
hashIP(ip, env) ==
    LET salt == IF Len(env.IP_HASH_SALT) = 0
                THEN <<"m","u","r","m","u","r","-","d","e","f","a","u","l","t","-",
                       "s","a","l","t">>
                ELSE env.IP_HASH_SALT
    IN  SubSeq(toHex(SHA256(encode(salt \o ip))), 1, 16)

(***************************************************************************)
(* Request.formData(): multipart/form-data                                  *)
(*                                                                         *)
(* Wire format of the model: every part is preceded by the delimiter       *)
(* <<45, boundary>>, the body ends with two delimiters; a part is a name   *)
(* byte, a kind byte (1: a file part, with a filename; 0: a plain field)   *)
(* and its content.                                                        *)
(***************************************************************************)
FieldFile == 1

Min(S) == CHOOSE i \in S : \A k \in S : i <= k

Range(seq) == {seq[k] : k \in DOMAIN seq}

\* String.prototype.indexOf from position i; 0 when absent.
indexOf(str, needle, i) ==
    LET at == {k \in i..(Len(str) - Len(needle) + 1) :
                  \A j \in 1..Len(needle) : str[k + j - 1] = needle[j]}
    IN  IF at = {} THEN 0 ELSE Min(at)

MultipartFormData == <<"m","u","l","t","i","p","a","r","t","/","f","o","r","m","-","d","a","t","a">>
ApplicationJson == <<"a","p","p","l","i","c","a","t","i","o","n","/","j","s","o","n">>
BoundaryParam == <<"b","o","u","n","d","a","r","y","=">>

\* The MIME type essence of a Content-Type value: the text before the first ';'.
Essence(contentType) ==
    LET semi == indexOf(contentType, <<";">>, 1)
    IN  IF semi = 0 THEN contentType ELSE SubSeq(contentType, 1, semi - 1)

DelimAt(body, i, b) == i + 1 <= Len(body) /\ body[i] = 45 /\ body[i + 1] = b

\* The first delimiter at or after position i; 0 when there is none.
NextDelim(body, i, b) ==
    LET at == {k \in i..Len(body) : DelimAt(body, k, b)}
    IN  IF at = {} THEN 0 ELSE Min(at)

RECURSIVE ParseParts(_, _, _, _)
\* From the delimiter at position i: the entries parsed so far in acc.
ParseParts(body, i, b, acc) ==
    IF ~DelimAt(body, i, b) THEN [ok |-> FALSE, entries |-> <<>>]
    ELSE IF DelimAt(body, i + 2, b) /\ i + 3 = Len(body)
         THEN [ok |-> TRUE, entries |-> acc]
    ELSE LET j == NextDelim(body, i + 2, b)
         IN  IF j = 0 \/ j - (i + 2) < 2 THEN [ok |-> FALSE, entries |-> <<>>]
             ELSE ParseParts(body, j, b,
                     Append(acc, [name   |-> body[i + 2],
                                  isFile |-> body[i + 3] = 1,
                                  data   |-> SubSeq(body, i + 4, j - 1)]))

\* new Request(url, {headers, body}).formData(): [ok |-> FALSE] when it throws.
formData(contentType, body) ==
    LET at == indexOf(contentType, BoundaryParam, 1)
    IN  IF contentType = Null \/ Essence(contentType) # MultipartFormData
           \/ at = 0 \/ at + Len(BoundaryParam) > Len(contentType)
        THEN [ok |-> FALSE, entries |-> <<>>]
        ELSE ParseParts(body, 1, CharCodes[contentType[at + Len(BoundaryParam)]], <<>>)

\* FormData.get(name): the first entry of that name, or null.
formDataGet(entries, name) ==
    LET at == {i \in 1..Len(entries) : entries[i].name = name}
    IN  IF at = {} THEN [null |-> TRUE, isFile |-> FALSE, data |-> <<>>]
        ELSE LET e == entries[Min(at)]
             IN  [null |-> FALSE, isFile |-> e.isFile, data |-> e.data]

(***************************************************************************)
(* verifyHmacSignature                                                     *)
(***************************************************************************)
MAX_AGE_SECONDS == 300

Abs(x) == IF x < 0 THEN 0 - x ELSE x

RECURSIVE CompareLoop(_, _, _, _)
\* for (let i = 0; i < signature.length; i++) mismatch |= a ^ b
\* over the positions lo..hi: the value OR-ed into mismatch (evaluated by
\* halves to keep the evaluation shallow; every position is visited).
CompareLoop(signature, expected, lo, hi) ==
    IF lo > hi THEN 0
    ELSE IF lo = hi
    THEN BitXor(charCodeAt(signature, lo), charCodeAt(expected, lo))
    ELSE LET mid == (lo + hi) \div 2
         IN  BitOr(CompareLoop(signature, expected, lo, mid),
                   CompareLoop(signature, expected, mid + 1, hi))

Invalid(error, steps) ==
    [valid |-> FALSE, threw |-> FALSE, error |-> error, steps |-> steps, iterations |-> 0]

\* BodyHash that hashes nothing of a JSON body.
BodyHash_ignoreBody(request, bodyBytes, isMultipart) ==
    IF isMultipart
    THEN LET form == formData(headersGet(request.headers, "Content-Type"), bodyBytes)
             audioFile == formDataGet(form.entries, FieldFile)
         IN  IF ~form.ok
             THEN [ok |-> FALSE, error |-> "Failed to parse multipart request", hash |-> <<>>]
             ELSE IF audioFile.null \/ ~audioFile.isFile
             THEN [ok |-> FALSE, error |-> "Missing audio file in request", hash |-> <<>>]
             ELSE [ok |-> TRUE, error |-> "", hash |-> toHex(SHA256(audioFile.data))]
    ELSE [ok |-> TRUE, error |-> "", hash |-> toHex(SHA256(<<>>))]

\* BodyHash that hashes the whole body of a multipart request too.
BodyHash_wholeBody(request, bodyBytes, isMultipart) ==
    IF isMultipart
    THEN LET form == formData(headersGet(request.headers, "Content-Type"), bodyBytes)
             audioFile == formDataGet(form.entries, FieldFile)
         IN  IF ~form.ok
             THEN [ok |-> FALSE, error |-> "Failed to parse multipart request", hash |-> <<>>]
             ELSE IF audioFile.null \/ ~audioFile.isFile
             THEN [ok |-> FALSE, error |-> "Missing audio file in request", hash |-> <<>>]
             ELSE [ok |-> TRUE, error |-> "", hash |-> toHex(SHA256(bodyBytes))]
    ELSE [ok |-> TRUE, error |-> "", hash |-> toHex(SHA256(bodyBytes))]

\* BodyHash that takes a 'file' field sent as a plain string for the file.
BodyHash_stringFile(request, bodyBytes, isMultipart) ==
    IF isMultipart
    THEN LET form == formData(headersGet(request.headers, "Content-Type"), bodyBytes)
             audioFile == formDataGet(form.entries, FieldFile)
         IN  IF ~form.ok
             THEN [ok |-> FALSE, error |-> "Failed to parse multipart request", hash |-> <<>>]
             ELSE IF audioFile.null
             THEN [ok |-> FALSE, error |-> "Missing audio file in request", hash |-> <<>>]
             ELSE [ok |-> TRUE, error |-> "", hash |-> toHex(SHA256(audioFile.data))]
    ELSE [ok |-> TRUE, error |-> "", hash |-> toHex(SHA256(bodyBytes))]

\* Lines 85-116: the hash of what was signed: [ok, error, hash]
BodyHash(request, bodyBytes, isMultipart) ==
    IF isMultipart
    THEN LET form == formData(headersGet(request.headers, "Content-Type"), bodyBytes)
             audioFile == formDataGet(form.entries, FieldFile)
         IN  IF ~form.ok
             THEN [ok |-> FALSE, error |-> "Failed to parse multipart request", hash |-> <<>>]
             ELSE IF audioFile.null \/ ~audioFile.isFile
             THEN [ok |-> FALSE, error |-> "Missing audio file in request", hash |-> <<>>]
             ELSE [ok |-> TRUE, error |-> "", hash |-> toHex(SHA256(audioFile.data))]
    ELSE [ok |-> TRUE, error |-> "", hash |-> toHex(SHA256(bodyBytes))]

\* `${timestamp}:${nonce}:${bodyHash}`
Message(timestamp, nonce, bodyHash) == timestamp \o <<":">> \o nonce \o <<":">> \o bodyHash

\* Lines 72-74: !timestamp || !nonce || !signature
HeadersMissing(timestamp, nonce, signature) ==
    Not(timestamp) \/ Not(nonce) \/ Not(signature)

\* TimestampExpired with >= for >.
TimestampExpired_exclusive(timestamp, now) ==
    LET requestTime == parseInt(timestamp, 10)
    IN  requestTime.nan \/ Abs(now - requestTime.v) >= MAX_AGE_SECONDS

\* Lines 77-83: isNaN(requestTime) || Math.abs(now - requestTime) > MAX_AGE_SECONDS
TimestampExpired(timestamp, now) ==
    LET requestTime == parseInt(timestamp, 10)
    IN  requestTime.nan \/ Abs(now - requestTime.v) > MAX_AGE_SECONDS

\* Lines 121-135: the expected signature, lowercase hex.
ExpectedSignature(secret, message) == toHex(HMAC(encode(secret), encode(message)))

\* CompareSignatures with a loop that leaves at the first differing character.
CompareSignatures_earlyExit(signature, expectedSignature) ==
    IF Len(signature) # Len(expectedSignature)
    THEN [equal |-> FALSE, iterations |-> 0]
    ELSE LET differing == {k \in 1..Len(signature) : signature[k] # expectedSignature[k]}
         IN  [equal      |-> differing = {},
              iterations |-> IF differing = {} THEN Len(signature) ELSE Min(differing)]

\* CompareSignatures with a loop that stops one character early.
CompareSignatures_skipLast(signature, expectedSignature) ==
    IF Len(signature) # Len(expectedSignature)
    THEN [equal |-> FALSE, iterations |-> 0]
    ELSE [equal      |-> CompareLoop(signature, expectedSignature, 1, Len(signature) - 1) = 0,
          iterations |-> Len(signature) - 1]

\* Lines 137-151: the comparison; [equal, iterations of the loop].
CompareSignatures(signature, expectedSignature) ==
    IF Len(signature) # Len(expectedSignature)
    THEN [equal |-> FALSE, iterations |-> 0]
    ELSE [equal      |-> CompareLoop(signature, expectedSignature, 1, Len(signature)) = 0,
          iterations |-> Len(signature)]

\* verifyHmacSignature that looks into the body before it looks at the
\* timestamp.
verifyHmacSignature_hashFirst(request, bodyBytes, env, isMultipart, now) ==
    LET timestamp == headersGet(request.headers, "X-Murmur-Timestamp")
        nonce     == headersGet(request.headers, "X-Murmur-Nonce")
        signature == headersGet(request.headers, "X-Murmur-Signature")
    IN  IF HeadersMissing(timestamp, nonce, signature)
        THEN Invalid("Missing authentication headers", <<"headers">>)
        ELSE
        LET body == BodyHash(request, bodyBytes, isMultipart)
        IN  IF ~body.ok
            THEN Invalid(body.error, <<"headers", "hash">>)
            ELSE IF TimestampExpired(timestamp, now)
            THEN Invalid("Request timestamp expired or invalid",
                         <<"headers", "hash", "timestamp">>)
            ELSE IF Len(encode(env.MURMUR_APP_SECRET)) = 0
            THEN [valid |-> FALSE, threw |-> TRUE, error |-> "",
                  steps |-> <<"headers", "hash", "timestamp", "importKey">>,
                  iterations |-> 0]
            ELSE
            LET expectedSignature ==
                    ExpectedSignature(env.MURMUR_APP_SECRET,
                                      Message(timestamp, nonce, body.hash))
                compared == CompareSignatures(signature, expectedSignature)
            IN  [valid |-> compared.equal, threw |-> FALSE,
                 error |-> IF compared.equal THEN "" ELSE "Invalid signature",
                 steps |-> <<"headers", "hash", "timestamp", "importKey", "sign", "compare">>,
                 iterations |-> compared.iterations]

\* now is Math.floor(Date.now() / 1000) as read at line 78. The result also
\* tells which steps were performed and whether an exception left the function.
verifyHmacSignature(request, bodyBytes, env, isMultipart, now) ==
    LET timestamp == headersGet(request.headers, "X-Murmur-Timestamp")
        nonce     == headersGet(request.headers, "X-Murmur-Nonce")
        signature == headersGet(request.headers, "X-Murmur-Signature")
    IN  IF HeadersMissing(timestamp, nonce, signature)
        THEN Invalid("Missing authentication headers", <<"headers">>)
        ELSE IF TimestampExpired(timestamp, now)
        THEN Invalid("Request timestamp expired or invalid", <<"headers", "timestamp">>)
        ELSE
        LET body == BodyHash(request, bodyBytes, isMultipart)
        IN  IF ~body.ok
            THEN Invalid(body.error, <<"headers", "timestamp", "hash">>)
            ELSE IF Len(encode(env.MURMUR_APP_SECRET)) = 0
            THEN \* importKey rejects an empty HMAC key: the exception propagates
                 [valid |-> FALSE, threw |-> TRUE, error |-> "",
                  steps |-> <<"headers", "timestamp", "hash", "importKey">>,
                  iterations |-> 0]
            ELSE
            LET expectedSignature ==
                    ExpectedSignature(env.MURMUR_APP_SECRET,
                                      Message(timestamp, nonce, body.hash))
                compared == CompareSignatures(signature, expectedSignature)
            IN  [valid |-> compared.equal, threw |-> FALSE,
                 error |-> IF compared.equal THEN "" ELSE "Invalid signature",
                 steps |-> <<"headers", "timestamp", "hash", "importKey", "sign", "compare">>,
                 iterations |-> compared.iterations]

(***************************************************************************)
(* The relay: validateContentType, corsHeaders, jsonError                  *)
(***************************************************************************)
GROQ_ENDPOINTS ==
    [whisper |-> "https://api.groq.com/openai/v1/audio/transcriptions",
     chat    |-> "https://api.groq.com/openai/v1/chat/completions"]

MAX_REQUEST_SIZE == 10 * 1024 * 1024

AudioPaths == {"/v1/audio/transcriptions", "/whisper"}
ChatPaths == {"/v1/chat/completions", "/chat"}

validateContentType(contentType, path) ==
    IF Not(contentType)
    THEN [valid |-> FALSE, error |-> "Missing Content-Type header"]
    ELSE IF path \in AudioPaths
    THEN IF ~includes(contentType, MultipartFormData)
         THEN [valid |-> FALSE, error |-> "Invalid Content-Type for audio endpoint"]
         ELSE [valid |-> TRUE, error |-> ""]
    ELSE IF path \in ChatPaths
    THEN IF ~includes(contentType, ApplicationJson)
         THEN [valid |-> FALSE, error |-> "Invalid Content-Type for chat endpoint"]
         ELSE [valid |-> TRUE, error |-> ""]
    ELSE [valid |-> TRUE, error |-> ""]

corsHeaders ==
    [h \in {"Access-Control-Allow-Origin", "Access-Control-Allow-Methods",
            "Access-Control-Allow-Headers", "Access-Control-Max-Age"} |->
        CASE h = "Access-Control-Allow-Origin"  -> "*"
          [] h = "Access-Control-Allow-Methods" -> "POST, OPTIONS"
          [] h = "Access-Control-Allow-Headers" ->
                "Content-Type, X-Murmur-Timestamp, X-Murmur-Nonce, X-Murmur-Signature"
          [] h = "Access-Control-Max-Age"       -> "86400"]

\* new Response(body, {status, headers}); a body is <<"null">>,
\* <<"json", "error", message>> for JSON.stringify({error: message}),
\* or <<"text", text>>.
Response(body, status, headers) ==
    [kind |-> "response", status |-> status, headers |-> headers, body |-> body]

\* jsonError without the CORS headers.
jsonError_noCors(message, status) ==
    Response(<<"json", "error", message>>, status, ("Content-Type" :> "application/json"))

jsonError(message, status) ==
    Response(<<"json", "error", message>>, status,
             ("Content-Type" :> "application/json") @@ corsHeaders)

\* The handler's promise rejected: no Response was returned.
Exception == [kind |-> "exception", status |-> 0, headers |-> <<>>, body |-> <<"null">>]
NoResponse == [kind |-> "none", status |-> 0, headers |-> <<>>, body |-> <<"null">>]

\* Bearer ${env.GROQ_API_KEY}
Bearer(key) == <<"B","e","a","r","e","r"," ">> \o key

\* Outbound with the Content-Type fixed to application/json.
Outbound_jsonOnly(targetUrl, env, contentType, bodyBytes) ==
    [url     |-> targetUrl,
     method  |-> "POST",
     headers |-> ("Authorization" :> Bearer(env.GROQ_API_KEY))
                 @@ ("Content-Type" :> ApplicationJson),
     body    |-> bodyBytes]

\* The request handed to the global fetch() at lines 241-248.
Outbound(targetUrl, env, contentType, bodyBytes) ==
    [url     |-> targetUrl,
     method  |-> "POST",
     headers |-> ("Authorization" :> Bearer(env.GROQ_API_KEY))
                 @@ ("Content-Type" :> IF Not(contentType) THEN ApplicationJson
                                       ELSE contentType),
     body    |-> bodyBytes]

\* TargetUrl that sends the /whisper alias to the chat endpoint.
TargetUrl_aliasToChat(path) ==
    IF path = "/v1/audio/transcriptions" THEN GROQ_ENDPOINTS.whisper
    ELSE IF path \in ChatPaths \cup {"/whisper"} THEN GROQ_ENDPOINTS.chat
    ELSE ""

\* targetUrl of lines 211-218; "" when the path is no route.
TargetUrl(path) ==
    IF path \in AudioPaths THEN GROQ_ENDPOINTS.whisper
    ELSE IF path \in ChatPaths THEN GROQ_ENDPOINTS.chat
    ELSE ""

\* contentType?.includes('multipart/form-data') ?? false
IsMultipart(contentType) ==
    IF contentType = Null THEN FALSE ELSE includes(contentType, MultipartFormData)

(***************************************************************************)
(* State                                                                   *)
(***************************************************************************)
VARIABLES
    env,    \* the Worker's bindings: GROQ_API_KEY, MURMUR_APP_SECRET
    now,    \* Math.floor(Date.now() / 1000)
    ticks,  \* how often the clock has advanced
    inv,    \* the invocations of fetch(request, env), one per slot
    preferencesHook,  \* an instance of usePreferences()
    timerHook,        \* an instance of useTimer()
    recordingHook,    \* an instance of useRecordingState(), with its backend
    overlayWindow,    \* an instance of <OverlayWindow />, with its backend
    helperCalls       \* the calls a component has made of the state helpers

\* The desktop app's components; the Worker's specifications leave them out.
uiVars == <<preferencesHook, timerHook, recordingHook, overlayWindow, helperCalls>>

vars == <<env, now, ticks, inv, uiVars>>

NotRendered == "not rendered"

UiAbsent ==
    /\ preferencesHook = NotRendered
    /\ timerHook = NotRendered
    /\ recordingHook = NotRendered
    /\ overlayWindow = NotRendered
    /\ helperCalls = NotRendered

\* Two invocations may be in flight at once (isolates, or awaits interleaving).
Slots == {1, 2}

MaxTicks == 1
MaxReplays == 1
T0 == 1000

NoRequest == [method |-> "", path |-> "", headers |-> <<>>, body |-> <<>>]
NoSig == [valid |-> FALSE, threw |-> FALSE, error |-> "", steps |-> <<>>, iterations |-> 0]
NoReply == [status |-> 0, contentType |-> "", body |-> ""]

\* An invocation: where the handler is (pc), what it holds, and what it did.
\*   gates          the gates evaluated so far, in order
\*   outbound       the requests handed to the upstream fetch
\*   io             which awaited I/O rejected, if any: "body", "fetch", "text"
\*   acceptedBefore how many earlier presentations of this very request were
\*                  forwarded (history; the handler does not read it)
\*   hashedIP       the result of the call of hashIP at line 199, which the
\*                  handler holds once the await has settled
\*   log            the lines written with console.error
Idle ==
    [pc |-> "idle", request |-> NoRequest, gates |-> <<>>, bodyBytes |-> <<>>,
     nowRead |-> 0, sig |-> NoSig, outbound |-> <<>>, reply |-> NoReply,
     response |-> NoResponse, io |-> "", acceptedBefore |-> 0,
     hashedIP |-> <<>>, log |-> <<>>]

\* console.error: the fixed text, the hashed IP that is interpolated (if
\* any) and the detail that follows it.
LogLine(text, hashedIP, detail) == [text |-> text, hashedIP |-> hashedIP, detail |-> detail]

Log(i, line) == [i EXCEPT !.log = @ \o <<line>>]

\* request.headers.get('CF-Connecting-IP') || 'unknown'
ClientIP(request) ==
    IF Not(headersGet(request.headers, "CF-Connecting-IP"))
    THEN <<"u","n","k","n","o","w","n">>
    ELSE request.headers["CF-Connecting-IP"]

Finish(i, response) == [i EXCEPT !.pc = "done", !.response = response]

(***************************************************************************)
(* fetch(request, env), one action per stretch between two awaits          *)
(***************************************************************************)
\* Start with the credential looked at before the preflight.
Start_credentialFirst(request, acceptedBefore) ==
    LET i == [Idle EXCEPT !.request = request, !.acceptedBefore = acceptedBefore]
    IN  IF Len(env.GROQ_API_KEY) = 0
        THEN Finish(Log([i EXCEPT !.gates = <<2>>],
                        LogLine("GROQ_API_KEY not configured", <<>>, "")),
                    jsonError("Proxy not configured", 500))
        ELSE IF request.method = "OPTIONS"
        THEN Finish(i, Response(<<"null">>, 200, corsHeaders))
        ELSE IF request.method # "POST"
        THEN Finish([i EXCEPT !.gates = <<1>>], jsonError("Method not allowed", 405))
        ELSE [i EXCEPT !.pc = "hashIP", !.gates = <<1, 2>>,
                       !.hashedIP = hashIP(ClientIP(request), env)]

\* Lines 179-199: the preflight, the method and the credential, then the
\* await of hashIP.
Start(request, acceptedBefore) ==
    LET i == [Idle EXCEPT !.request = request, !.acceptedBefore = acceptedBefore]
    IN  IF request.method = "OPTIONS"
        THEN Finish(i, Response(<<"null">>, 200, corsHeaders))
        ELSE IF request.method # "POST"
        THEN Finish([i EXCEPT !.gates = <<1>>], jsonError("Method not allowed", 405))
        ELSE IF Len(env.GROQ_API_KEY) = 0
        THEN Finish(Log([i EXCEPT !.gates = <<1, 2>>],
                        LogLine("GROQ_API_KEY not configured", <<>>, "")),
                    jsonError("Proxy not configured", 500))
        ELSE [i EXCEPT !.pc = "hashIP", !.gates = <<1, 2>>,
                       !.hashedIP = hashIP(ClientIP(request), env)]

\* Gates345 with the route looked up before the size is checked.
Gates345_routeFirst(i) ==
    LET contentLength == headersGet(i.request.headers, "Content-Length")
        path          == i.request.path
        contentType   == headersGet(i.request.headers, "Content-Type")
        validation    == validateContentType(contentType, path)
    IN  IF TargetUrl(path) = ""
        THEN Finish([i EXCEPT !.gates = @ \o <<3, 4>>], jsonError("Unknown endpoint", 404))
        ELSE IF ~Not(contentLength) /\ ~parseInt(contentLength, 0).nan
                /\ parseInt(contentLength, 0).v > MAX_REQUEST_SIZE
        THEN Finish([i EXCEPT !.gates = @ \o <<3>>], jsonError("Request too large", 413))
        ELSE IF ~validation.valid
        THEN Finish(Log([i EXCEPT !.gates = @ \o <<3, 4, 5>>],
                        LogLine("Invalid content type from ", i.hashedIP, validation.error)),
                    jsonError(validation.error, 400))
        ELSE [i EXCEPT !.pc = "readBody", !.gates = @ \o <<3, 4, 5>>]

\* Gates345 that also turns away a request of exactly the maximum size.
Gates345_sizeInclusive(i) ==
    LET contentLength == headersGet(i.request.headers, "Content-Length")
        path          == i.request.path
        contentType   == headersGet(i.request.headers, "Content-Type")
        validation    == validateContentType(contentType, path)
    IN  IF ~Not(contentLength) /\ ~parseInt(contentLength, 0).nan
           /\ parseInt(contentLength, 0).v >= MAX_REQUEST_SIZE
        THEN Finish([i EXCEPT !.gates = @ \o <<3>>], jsonError("Request too large", 413))
        ELSE IF TargetUrl(path) = ""
        THEN Finish([i EXCEPT !.gates = @ \o <<3, 4>>], jsonError("Unknown endpoint", 404))
        ELSE IF ~validation.valid
        THEN Finish(Log([i EXCEPT !.gates = @ \o <<3, 4, 5>>],
                        LogLine("Invalid content type from ", i.hashedIP, validation.error)),
                    jsonError(validation.error, 400))
        ELSE [i EXCEPT !.pc = "readBody", !.gates = @ \o <<3, 4, 5>>]

\* Lines 201-229: the size, the route and the content type, then the await
\* of request.arrayBuffer().
Gates345(i) ==
    LET contentLength == headersGet(i.request.headers, "Content-Length")
        path          == i.request.path
        contentType   == headersGet(i.request.headers, "Content-Type")
        validation    == validateContentType(contentType, path)
    IN  IF ~Not(contentLength) /\ ~parseInt(contentLength, 0).nan
           /\ parseInt(contentLength, 0).v > MAX_REQUEST_SIZE
        THEN Finish([i EXCEPT !.gates = @ \o <<3>>], jsonError("Request too large", 413))
        ELSE IF TargetUrl(path) = ""
        THEN Finish([i EXCEPT !.gates = @ \o <<3, 4>>], jsonError("Unknown endpoint", 404))
        ELSE IF ~validation.valid
        THEN Finish(Log([i EXCEPT !.gates = @ \o <<3, 4, 5>>],
                        LogLine("Invalid content type from ", i.hashedIP, validation.error)),
                    jsonError(validation.error, 400))
        ELSE [i EXCEPT !.pc = "readBody", !.gates = @ \o <<3, 4, 5>>]

\* CaptureAndVerify with a cache of the requests already accepted.
CaptureAndVerify_replayCache(i) ==
    LET contentType == headersGet(i.request.headers, "Content-Type")
        bodyBytes   == i.request.body
    IN  [i EXCEPT !.pc = "verifying", !.gates = @ \o <<6>>,
                  !.bodyBytes = bodyBytes, !.nowRead = now,
                  !.sig = IF i.acceptedBefore > 0
                          THEN Invalid("Replayed request", <<"headers">>)
                          ELSE verifyHmacSignature(i.request, bodyBytes, env,
                                                   IsMultipart(contentType), now)]

\* Lines 229-233: the body is captured and verifyHmacSignature is called; it
\* reads the clock before its first await.
CaptureAndVerify(i) ==
    LET contentType == headersGet(i.request.headers, "Content-Type")
        bodyBytes   == i.request.body
    IN  [i EXCEPT !.pc = "verifying", !.gates = @ \o <<6>>,
                  !.bodyBytes = bodyBytes, !.nowRead = now,
                  !.sig = verifyHmacSignature(i.request, bodyBytes, env,
                                              IsMultipart(contentType), now)]

\* AfterVerify that answers with the verifier's own error message.
AfterVerify_leakReason(i) ==
    LET contentType == headersGet(i.request.headers, "Content-Type")
    IN  IF i.sig.threw THEN Finish(i, Exception)
        ELSE IF ~i.sig.valid
        THEN Finish(Log(i, LogLine("Auth failed from ", i.hashedIP, i.sig.error)),
                    jsonError(i.sig.error, 401))
        ELSE [i EXCEPT !.pc = "upstream",
                       !.outbound = @ \o <<Outbound(TargetUrl(i.request.path), env,
                                                    contentType, i.bodyBytes)>>]

\* AfterVerify without the test of signatureResult.valid.
AfterVerify_ignoreResult(i) ==
    LET contentType == headersGet(i.request.headers, "Content-Type")
    IN  IF i.sig.threw THEN Finish(i, Exception)
        ELSE [i EXCEPT !.pc = "upstream",
                       !.outbound = @ \o <<Outbound(TargetUrl(i.request.path), env,
                                                    contentType, i.bodyBytes)>>]

\* AfterVerify that logs the client's address as it came.
AfterVerify_logRawIP(i) ==
    LET contentType == headersGet(i.request.headers, "Content-Type")
    IN  IF i.sig.threw THEN Finish(i, Exception)
        ELSE IF ~i.sig.valid
        THEN Finish(Log(i, LogLine("Auth failed from ", ClientIP(i.request), i.sig.error)),
                    jsonError("Unauthorized", 401))
        ELSE [i EXCEPT !.pc = "upstream",
                       !.outbound = @ \o <<Outbound(TargetUrl(i.request.path), env,
                                                    contentType, i.bodyBytes)>>]

\* Lines 234-248: the verifier's answer, then the upstream fetch.
AfterVerify(i) ==
    LET contentType == headersGet(i.request.headers, "Content-Type")
    IN  IF i.sig.threw THEN Finish(i, Exception)
        ELSE IF ~i.sig.valid
        THEN Finish(Log(i, LogLine("Auth failed from ", i.hashedIP, i.sig.error)),
                    jsonError("Unauthorized", 401))
        ELSE [i EXCEPT !.pc = "upstream",
                       !.outbound = @ \o <<Outbound(TargetUrl(i.request.path), env,
                                                    contentType, i.bodyBytes)>>]

\* Failed that tries the upstream once more before it gives up.
Failed_retryOnce(i) ==
    IF Len(i.outbound) < 2
    THEN [i EXCEPT !.pc = "upstream", !.io = "", !.reply = NoReply,
                   !.outbound = @ \o <<@[1]>>]
    ELSE Finish(i, jsonError("Proxy request failed", 502))

\* Lines 260-263: the catch block; the caught error is logged as it is.
Failed(i) ==
    Finish(Log(i, LogLine("Proxy error for ", i.hashedIP, "error")),
           jsonError("Proxy request failed", 502))

\* new Response(body, init) throws a RangeError for a status outside 200..599
\* and a TypeError for a body with a null body status; the Workers runtime
\* lets the zero-length body pass.
NullBodyStatus == {101, 204, 205, 304}

ResponseThrows(text, status) ==
    \/ status < 200 \/ status > 599
    \/ (status \in NullBodyStatus /\ text # "")

\* Relay that answers 502 for an upstream error status.
Relay_errorsTo502(i) ==
    IF ResponseThrows(i.reply.body, i.reply.status) \/ i.reply.status >= 400
    THEN Finish(i, jsonError("Proxy request failed", 502))
    ELSE Finish(i, Response(<<"text", i.reply.body>>, i.reply.status,
                            ("Content-Type" :> IF i.reply.contentType = ""
                                               THEN "application/json"
                                               ELSE i.reply.contentType) @@ corsHeaders))

\* Lines 253-259: the upstream's reply relayed; an exception of the Response
\* constructor is caught at line 260.
Relay(i) ==
    IF ResponseThrows(i.reply.body, i.reply.status)
    THEN Failed(i)
    ELSE Finish(i, Response(<<"text", i.reply.body>>, i.reply.status,
                            ("Content-Type" :> IF i.reply.contentType = ""
                                               THEN "application/json"
                                               ELSE i.reply.contentType) @@ corsHeaders))

Receive(s, request) ==
    /\ inv[s].pc = "idle"
    /\ inv' = [inv EXCEPT ![s] = Start(request, 0)]
    /\ UNCHANGED <<env, now, ticks, uiVars>>

\* The client presents the request of a finished invocation once more.
Replay(s) ==
    /\ inv[s].pc = "done"
    /\ inv[s].acceptedBefore + Len(inv[s].outbound) <= MaxReplays
    /\ inv' = [inv EXCEPT ![s] =
                 Start(inv[s].request, inv[s].acceptedBefore + Len(inv[s].outbound))]
    /\ UNCHANGED <<env, now, ticks, uiVars>>

\* The invocation is over; nothing of it is kept.
Release(s) ==
    /\ inv[s].pc = "done"
    /\ inv' = [inv EXCEPT ![s] = Idle]
    /\ UNCHANGED <<env, now, ticks, uiVars>>

HashIPResolves(s) ==
    /\ inv[s].pc = "hashIP"
    /\ inv' = [inv EXCEPT ![s] = Gates345(inv[s])]
    /\ UNCHANGED <<env, now, ticks, uiVars>>

BodyResolves(s) ==
    /\ inv[s].pc = "readBody"
    /\ inv' = [inv EXCEPT ![s] = CaptureAndVerify(inv[s])]
    /\ UNCHANGED <<env, now, ticks, uiVars>>

\* request.arrayBuffer() rejects (the client's upload broke off): line 229 is
\* outside the try block.
BodyRejects(s) ==
    /\ inv[s].pc = "readBody"
    /\ inv' = [inv EXCEPT ![s] = Finish([inv[s] EXCEPT !.io = "body"], Exception)]
    /\ UNCHANGED <<env, now, ticks, uiVars>>

VerifyResolves(s) ==
    /\ inv[s].pc = "verifying"
    /\ inv' = [inv EXCEPT ![s] = AfterVerify(inv[s])]
    /\ UNCHANGED <<env, now, ticks, uiVars>>

UpstreamResolves(s, reply) ==
    /\ inv[s].pc = "upstream"
    /\ inv' = [inv EXCEPT ![s] = [inv[s] EXCEPT !.pc = "readText", !.reply = reply]]
    /\ UNCHANGED <<env, now, ticks, uiVars>>

\* fetch() to the upstream rejects: timeout, DNS, connection reset.
UpstreamRejects(s) ==
    /\ inv[s].pc = "upstream"
    /\ inv' = [inv EXCEPT ![s] = Failed([inv[s] EXCEPT !.io = "fetch"])]
    /\ UNCHANGED <<env, now, ticks, uiVars>>

TextResolves(s) ==
    /\ inv[s].pc = "readText"
    /\ inv' = [inv EXCEPT ![s] = Relay(inv[s])]
    /\ UNCHANGED <<env, now, ticks, uiVars>>

TextRejects(s) ==
    /\ inv[s].pc = "readText"
    /\ inv' = [inv EXCEPT ![s] = Failed([inv[s] EXCEPT !.io = "text"])]
    /\ UNCHANGED <<env, now, ticks, uiVars>>

Tick ==
    /\ ticks < MaxTicks
    /\ now' = now + 1
    /\ ticks' = ticks + 1
    /\ UNCHANGED <<env, inv, uiVars>>

(***************************************************************************)
(* Inputs: configurations, bodies, header values, requests                 *)
(***************************************************************************)
ApiKey == <<"g","s","k","_","1">>
AppSecret == <<"s","k">>
ForeignSecret == <<"x">>

\* A binding that is not configured is the empty string here.
Envs ==
    [GROQ_API_KEY : {<<>>, ApiKey}, MURMUR_APP_SECRET : {<<>>, AppSecret},
     IP_HASH_SALT : {<<>>}]

\* What the client does: sign `${timestamp}:${nonce}:${hash}` with its secret.
ClientSign(secret, timestamp, nonce, hash) ==
    toHex(HMAC(encode(secret), encode(Message(timestamp, nonce, hash))))

\* A multipart body on the wire, from the boundary byte and the parts.
RECURSIVE EncodeParts(_, _, _)
EncodeParts(b, parts, i) ==
    IF i > Len(parts) THEN <<45, b, 45, b>>
    ELSE <<45, b, parts[i].name, IF parts[i].isFile THEN 1 ELSE 0>>
         \o parts[i].data \o EncodeParts(b, parts, i + 1)

MultipartBody(b, parts) == EncodeParts(b, parts, 1)

Audio1 == <<7, 8>>
Audio2 == <<7, 9>>
FilePart(data) == [name |-> FieldFile, isFile |-> TRUE, data |-> data]
FileAsString == [name |-> FieldFile, isFile |-> FALSE, data |-> Audio1]
ModelField == [name |-> 2, isFile |-> FALSE, data |-> <<5>>]
LanguageField == [name |-> 3, isFile |-> FALSE, data |-> <<6>>]

BoundaryA == CharCodes["A"]
BoundaryB == CharCodes["B"]

Json1 == <<123, 125>>
Multipart1 == MultipartBody(BoundaryA, <<ModelField, FilePart(Audio1)>>)

JsonBodies == {<<>>, <<123>>, Json1, <<123, 126>>}

MultipartBodies ==
    {MultipartBody(BoundaryA, parts) : parts \in
        {<<FilePart(Audio1)>>, <<ModelField, FilePart(Audio1)>>,
         <<FilePart(Audio1), ModelField>>, <<FilePart(Audio1), LanguageField>>,
         <<FilePart(Audio2)>>, <<FilePart(<<>>)>>, <<ModelField>>, <<FileAsString>>,
         <<FileAsString, FilePart(Audio1)>>,
         <<FilePart(Audio1), FilePart(Audio2)>>, <<FilePart(Audio2), FilePart(Audio1)>>}}
    \cup {MultipartBody(BoundaryB, <<FilePart(Audio1)>>),
          MultipartBody(BoundaryB, <<FilePart(Audio1), ModelField>>)}

Bodies == JsonBodies \cup MultipartBodies

CtJson == ApplicationJson
CtMultipartA == MultipartFormData \o <<";", " ">> \o BoundaryParam \o <<"A">>
CtMultipartB == MultipartFormData \o <<";", " ">> \o BoundaryParam \o <<"B">>
CtText == <<"t","e","x","t","/","p","l","a","i","n">>
\* multipart/form-data; boundary=A; x=application/json
CtMultipartJson == CtMultipartA \o <<";", " ", "x", "=">> \o ApplicationJson
\* application/json; x=multipart/form-data; boundary=A
CtJsonMultipart == ApplicationJson \o <<";", " ", "x", "=">> \o CtMultipartA

Nonce1 == <<"n", "1">>
Nonce2 == <<"n", "2">>

Ts(n) == numToString(n)
FreshTimestamps == {Ts(T0), Ts(T0 - MAX_AGE_SECONDS)}
Timestamps ==
    {Ts(T0 - MAX_AGE_SECONDS - 1), Ts(T0 - MAX_AGE_SECONDS), Ts(T0),
     Ts(T0 + MAX_AGE_SECONDS), Ts(T0 + MAX_AGE_SECONDS + 1), Ts(T0 + MAX_AGE_SECONDS + 2),
     <<"a","b","c">>, Ts(T0) \o <<"x">>, <<" ">> \o Ts(T0), <<"-">> \o Ts(T0)}

ContentLengths ==
    {Null, numToString(MAX_REQUEST_SIZE), numToString(MAX_REQUEST_SIZE + 1),
     numToString(11 * 1024 * 1024), <<"a","b","c">>}

\* The file the client attached, as the proxy will find it; Audio1 when the
\* body carries none.
AttachedAudio(contentType, body) ==
    LET form == formData(contentType, body)
        file == formDataGet(form.entries, FieldFile)
    IN  IF form.ok /\ ~file.null /\ file.isFile THEN file.data ELSE Audio1

Str(value) == IF value = Null THEN <<>> ELSE value

UpperHex(sig) ==
    [i \in 1..Len(sig) |->
        CASE sig[i] = "a" -> "A" [] sig[i] = "b" -> "B" [] sig[i] = "c" -> "C"
          [] sig[i] = "d" -> "D" [] sig[i] = "e" -> "E" [] sig[i] = "f" -> "F"
          [] OTHER -> sig[i]]

Flip(sig, i) == [sig EXCEPT ![i] = IF @ = "0" THEN "1" ELSE "0"]

SignatureKinds ==
    {"none", "whole", "file", "flipFirst", "flipLast", "short", "long", "upper", "forged"}

\* The X-Murmur-Signature value of each kind, for the rest of the request.
SignatureOf(kind, contentType, timestamp, nonce, body) ==
    LET whole == ClientSign(AppSecret, Str(timestamp), Str(nonce), toHex(SHA256(body)))
        file  == ClientSign(AppSecret, Str(timestamp), Str(nonce),
                            toHex(SHA256(AttachedAudio(contentType, body))))
        right == IF IsMultipart(contentType) THEN file ELSE whole
    IN  CASE kind = "none"      -> Null
          [] kind = "empty"     -> <<>>
          [] kind = "whole"     -> whole
          [] kind = "file"      -> file
          [] kind = "right"     -> right
          [] kind = "flipFirst" -> Flip(right, 1)
          [] kind = "flipLast"  -> Flip(right, Len(right))
          [] kind = "short"     -> SubSeq(right, 1, Len(right) - 1)
          [] kind = "long"      -> right \o <<"0">>
          [] kind = "upper"     -> UpperHex(right)
          [] kind = "forged"    -> ClientSign(ForeignSecret, Str(timestamp), Str(nonce),
                                              toHex(SHA256(body)))

Headers(contentType, contentLength, timestamp, nonce, signature) ==
    LET given == [n \in {"Content-Type", "Content-Length", "X-Murmur-Timestamp",
                         "X-Murmur-Nonce", "X-Murmur-Signature"} |->
                    CASE n = "Content-Type"       -> contentType
                      [] n = "Content-Length"     -> contentLength
                      [] n = "X-Murmur-Timestamp" -> timestamp
                      [] n = "X-Murmur-Nonce"     -> nonce
                      [] n = "X-Murmur-Signature" -> signature]
    IN  [n \in {m \in DOMAIN given : given[m] # Null} |-> given[n]]
        @@ ("Authorization" :> <<"B","e","a","r","e","r"," ","x">>)

Request(method, path, contentType, contentLength, timestamp, nonce, kind, body) ==
    [method  |-> method,
     path    |-> path,
     headers |-> Headers(contentType, contentLength, timestamp, nonce,
                         SignatureOf(kind, contentType, timestamp, nonce, body)),
     body    |-> body]

Paths == AudioPaths \cup ChatPaths \cup {"/other"}

\* Requests that differ in what the gates look at.
GateRequests ==
    {Request(m, p, ct, cl, Ts(T0), Nonce1, k, b) :
        m \in {"OPTIONS", "GET", "POST"}, p \in Paths,
        ct \in {Null, CtJson, CtMultipartA, CtText, CtMultipartJson},
        cl \in ContentLengths, k \in {"right", "none"}, b \in {Json1, Multipart1}}

Routes ==
    {<<"/chat", CtJson>>, <<"/whisper", CtMultipartA>>}

\* Requests that differ in signature and body.
SignedRequests ==
    {Request("POST", r[1], r[2], Null, ts, Nonce1, k, b) :
        r \in Routes, ts \in FreshTimestamps, k \in SignatureKinds, b \in Bodies}

\* Requests that differ in the timestamp.
TimedRequests ==
    {Request("POST", r[1], r[2], Null, ts, Nonce1, k, b) :
        r \in Routes, ts \in Timestamps, k \in {"right", "flipLast"},
        b \in {Json1, Multipart1}}

\* Requests that lack authentication headers, or carry empty ones.
BareRequests ==
    {Request("POST", r[1], r[2], Null, ts, n, k, b) :
        r \in Routes, ts \in {Null, <<>>, Ts(T0)}, n \in {Null, <<>>, Nonce1, Nonce2},
        k \in {"none", "empty", "right"}, b \in {Json1, Multipart1}}

\* Requests whose Content-Type and body disagree in the ways multipart allows.
EnvelopeRequests ==
    {Request("POST", r[1], r[2], Null, Ts(T0), Nonce1, k, b) :
        r \in {<<"/whisper", CtMultipartA>>, <<"/whisper", CtMultipartB>>,
               <<"/chat", CtMultipartJson>>, <<"/chat", CtJsonMultipart>>,
               <<"/whisper", CtJsonMultipart>>},
        k \in {"whole", "file"}, b \in Bodies}

\* Requests that fail several of the verifier's checks at once.
OrderRequests ==
    {Request("POST", "/whisper", CtMultipartA, Null, ts, n, "right", b) :
        ts \in {Ts(T0 - MAX_AGE_SECONDS - 1), Ts(T0)}, n \in {Null, Nonce1},
        b \in {MultipartBody(BoundaryA, <<ModelField>>), Json1}}

Requests ==
    GateRequests \cup SignedRequests \cup TimedRequests \cup BareRequests
    \cup EnvelopeRequests \cup OrderRequests

\* What the upstream may answer.
Replies ==
    [status : {200, 429, 500}, contentType : {"", "text/plain"}, body : {"{\"text\":\"hi\"}"}]
    \cup {[status |-> 204, contentType |-> "", body |-> ""]}

(***************************************************************************)
(* Specification: one invocation at a time, every kind of request          *)
(***************************************************************************)
Init ==
    /\ env \in Envs
    /\ now = T0
    /\ ticks = 0
    /\ inv = [s \in Slots |-> Idle]
    /\ UiAbsent

Next ==
    \/ \E request \in Requests : Receive(1, request)
    \/ Replay(1)
    \/ Release(1)
    \/ HashIPResolves(1)
    \/ BodyResolves(1)
    \/ BodyRejects(1)
    \/ VerifyResolves(1)
    \/ \E reply \in Replies : UpstreamResolves(1, reply)
    \/ UpstreamRejects(1)
    \/ TextResolves(1)
    \/ TextRejects(1)
    \/ Tick

Spec == Init /\ [][Next]_vars

(***************************************************************************)
(* Specification: two invocations in flight, interleaved at every await    *)
(***************************************************************************)
ConcurrentRequests ==
    {Request("POST", "/chat", CtJson, Null, Ts(T0), Nonce1, "right", Json1),
     Request("POST", "/chat", CtJson, Null, Ts(T0 - MAX_AGE_SECONDS), Nonce1, "right", Json1),
     Request("POST", "/chat", CtJson, Null, Ts(T0), Nonce1, "flipLast", Json1),
     Request("POST", "/chat", CtJson, Null, Ts(T0), Null, "right", Json1),
     Request("POST", "/whisper", CtMultipartA, Null, Ts(T0), Nonce1, "right", Multipart1),
     Request("POST", "/whisper", CtMultipartA, Null, Ts(T0), Nonce1, "right",
             MultipartBody(BoundaryA, <<ModelField>>)),
     Request("GET", "/other", Null, Null, Ts(T0), Nonce1, "none", Json1)}

ConcurrentReplies == {r \in Replies : r.status = 200}

NextConc ==
    \E s \in Slots :
        \/ \E request \in ConcurrentRequests : Receive(s, request)
        \/ Replay(s)
        \/ Release(s)
        \/ HashIPResolves(s)
        \/ BodyResolves(s)
        \/ BodyRejects(s)
        \/ VerifyResolves(s)
        \/ \E reply \in ConcurrentReplies : UpstreamResolves(s, reply)
        \/ UpstreamRejects(s)
        \/ TextResolves(s)
        \/ TextRejects(s)
        \/ Tick

SpecConc == Init /\ [][NextConc]_vars

(***************************************************************************)
(* Specification: progress. What the Worker awaits of its own runtime (the *)
(* digest of hashIP, the buffered request body, the verifier, the text of  *)
(* a reply that has arrived) settles; the code sets no timer and passes no *)
(* AbortSignal to the upstream fetch (lines 241-248), so nothing obliges   *)
(* that promise to settle.                                                 *)
(***************************************************************************)
NextLive ==
    \/ \E request \in ConcurrentRequests : Receive(1, request)
    \/ Replay(1)
    \/ Release(1)
    \/ HashIPResolves(1)
    \/ BodyResolves(1)
    \/ BodyRejects(1)
    \/ VerifyResolves(1)
    \/ \E reply \in ConcurrentReplies : UpstreamResolves(1, reply)
    \/ UpstreamRejects(1)
    \/ TextResolves(1)
    \/ TextRejects(1)
    \/ Tick

SpecLive ==
    /\ Init
    /\ [][NextLive]_vars
    /\ WF_vars(HashIPResolves(1))
    /\ WF_vars(BodyRejects(1) \/ BodyResolves(1))
    /\ WF_vars(VerifyResolves(1))
    /\ WF_vars(TextResolves(1) \/ TextRejects(1))

(***************************************************************************)
(* Specification: one invocation under every pairing of two credentials    *)
(* and two signing secrets, configured or not                              *)
(***************************************************************************)
ApiKey2 == <<"g","s","k","_","2">>

SecretEnvs ==
    [GROQ_API_KEY : {<<>>, ApiKey, ApiKey2},
     MURMUR_APP_SECRET : {<<>>, AppSecret, ForeignSecret},
     IP_HASH_SALT : {<<>>}]

SecretRequests ==
    ConcurrentRequests
    \cup {Request("POST", "/chat", CtJson, Null, Ts(T0), Nonce1, "forged", Json1),
          Request("POST", "/chat", CtText, Null, Ts(T0), Nonce1, "right", Json1),
          Request("POST", "/whisper", Null, Null, Ts(T0), Nonce1, "right", Multipart1),
          Request("OPTIONS", "/chat", CtJson, Null, Ts(T0), Nonce1, "right", Json1)}

InitSecrets ==
    /\ env \in SecretEnvs
    /\ now = T0
    /\ ticks = 0
    /\ inv = [s \in Slots |-> Idle]
    /\ UiAbsent

NextSecrets ==
    \/ \E request \in SecretRequests : Receive(1, request)
    \/ Replay(1)
    \/ Release(1)
    \/ HashIPResolves(1)
    \/ BodyResolves(1)
    \/ BodyRejects(1)
    \/ VerifyResolves(1)
    \/ \E reply \in Replies : UpstreamResolves(1, reply)
    \/ UpstreamRejects(1)
    \/ TextResolves(1)
    \/ TextRejects(1)
    \/ Tick

SpecSecrets == InitSecrets /\ [][NextSecrets]_vars

(***************************************************************************)
(* Specification: requests as the edge hands them to the Worker, with the  *)
(* client's address in CF-Connecting-IP and a body of some size, announced *)
(* in Content-Length or sent chunked without one                           *)
(***************************************************************************)
Ip4 == <<"1", ".", "2">>
Ip6 == <<":", ":", "1">>

\* Null: the header is absent (a local run); <<>>: it is empty.
ClientIPs == {Null, <<>>, Ip4, Ip6}

Salt1 == <<"s", "1">>

EdgeEnvs ==
    [GROQ_API_KEY : {<<>>, ApiKey}, MURMUR_APP_SECRET : {AppSecret},
     IP_HASH_SALT : {<<>>, Salt1}]

Spaces(k) == [j \in 1..k |-> 32]

\* The sizes of body looked at: a few bytes, exactly the maximum, one byte
\* more, and 11 MiB.
SizeClasses == 0..3

\* A body of class k is written as its content followed by k filler bytes,
\* which stand for the rest of it; actualSize is the number of bytes the
\* client sends.
ActualSize(k, body) ==
    CASE k = 0 -> Len(body)
      [] k = 1 -> MAX_REQUEST_SIZE
      [] k = 2 -> MAX_REQUEST_SIZE + 1
      [] k = 3 -> 11 * 1024 * 1024

EdgeBody(path, k) ==
    IF path \in AudioPaths
    THEN MultipartBody(BoundaryA, <<FilePart(Audio1 \o Spaces(k))>>)
    ELSE Json1 \o Spaces(k)

EdgeRequest(path, contentType, declared, ip, kind, k) ==
    LET body == EdgeBody(path, k)
        size == ActualSize(k, body)
        base == Request("POST", path, contentType,
                        IF declared THEN numToString(size) ELSE Null,
                        Ts(T0), Nonce1, kind, body)
    IN  [method     |-> base.method,
         path       |-> base.path,
         headers    |-> IF ip = Null THEN base.headers
                        ELSE ("CF-Connecting-IP" :> ip) @@ base.headers,
         body       |-> base.body,
         actualSize |-> size]

EdgeRequests ==
    {EdgeRequest(r[1], r[2], declared, ip, kind, k) :
        r \in Routes \cup {<<"/chat", CtText>>}, declared \in BOOLEAN,
        ip \in ClientIPs, kind \in {"right", "flipLast"}, k \in SizeClasses}

InitEdge ==
    /\ env \in EdgeEnvs
    /\ now = T0
    /\ ticks = 0
    /\ inv = [s \in Slots |-> Idle]
    /\ UiAbsent

NextEdge ==
    \/ \E request \in EdgeRequests : Receive(1, request)
    \/ Replay(1)
    \/ Release(1)
    \/ HashIPResolves(1)
    \/ BodyResolves(1)
    \/ BodyRejects(1)
    \/ VerifyResolves(1)
    \/ \E reply \in ConcurrentReplies : UpstreamResolves(1, reply)
    \/ UpstreamRejects(1)
    \/ TextResolves(1)
    \/ TextRejects(1)
    \/ Tick

SpecEdge == InitEdge /\ [][NextEdge]_vars

(***************************************************************************)
(* The desktop app's hooks. The Worker is left out of their specifications. *)
(***************************************************************************)
ProxyAbsent ==
    /\ env = [GROQ_API_KEY |-> <<>>, MURMUR_APP_SECRET |-> <<>>, IP_HASH_SALT |-> <<>>]
    /\ now = T0
    /\ ticks = 0
    /\ inv = [s \in Slots |-> Idle]

\* null, where the other values of the field are strings.
JsNull == "<null>"

proxyVars == <<env, now, ticks, inv>>
othersThanPreferences == <<proxyVars, timerHook, recordingHook, overlayWindow, helperCalls>>
othersThanTimer == <<proxyVars, preferencesHook, recordingHook, overlayWindow, helperCalls>>
othersThanRecording == <<proxyVars, preferencesHook, timerHook, overlayWindow, helperCalls>>
othersThanOverlay == <<proxyVars, preferencesHook, timerHook, recordingHook, helperCalls>>
othersThanHelpers == <<proxyVars, preferencesHook, timerHook, recordingHook, overlayWindow>>

(***************************************************************************)
(* usePreferences                                                          *)
(*                                                                         *)
(* A Preferences object is [id, value]: setState and useMemo compare       *)
(* objects by identity (Object.is), preferencesEqual by value. An action   *)
(* is one synchronous stretch of a handler followed by the render React    *)
(* makes of the batched updates.                                           *)
(***************************************************************************)
DEFAULT_PREFERENCES ==
    [recording_mode |-> "toggle", hotkey |-> "Option+Space", show_indicator |-> TRUE,
     play_sounds |-> TRUE, microphone |-> "default", language |-> "en-US",
     deepgram_api_key |-> "", groq_api_key |-> "", anthropic_api_key |-> "",
     transcription_provider |-> "deepgram", license_key |-> JsNull,
     onboarding_complete |-> FALSE, spoken_languages |-> <<"en">>]

preferencesEqual(a, b) ==
    IF \/ a.recording_mode # b.recording_mode
       \/ a.hotkey # b.hotkey
       \/ a.show_indicator # b.show_indicator
       \/ a.play_sounds # b.play_sounds
       \/ a.microphone # b.microphone
       \/ a.language # b.language
       \/ a.deepgram_api_key # b.deepgram_api_key
       \/ a.groq_api_key # b.groq_api_key
       \/ a.anthropic_api_key # b.anthropic_api_key
       \/ a.transcription_provider # b.transcription_provider
       \/ a.license_key # b.license_key
       \/ a.onboarding_complete # b.onboarding_complete
    THEN FALSE
    ELSE IF Len(a.spoken_languages) # Len(b.spoken_languages)
    THEN FALSE
    ELSE \A i \in 1..Len(a.spoken_languages) :
            a.spoken_languages[i] = b.spoken_languages[i]

\* How many Preferences objects an instance may create after the default one.
MaxObjects == 3
\* How many calls of updatePreferences may be awaited at once.
MaxSaves == 1

DefaultObject == [id |-> 0, value |-> DEFAULT_PREFERENCES]

\* The hook after its first render: load() has been called and awaits
\* getPreferences().
\*   memoDeps  the preferences object useMemo computed hasChanges for
\*   saves     the awaited updatePreferences calls: who awaits, and the
\*             preferences object of the closure that called
\*   objects   the objects created so far
\*   last      the last thing that happened (history)
usePreferencesMounted ==
    [preferences |-> DefaultObject, isLoading |-> TRUE, isSaving |-> FALSE,
     error |-> JsNull, originalPrefsRef |-> DefaultObject,
     hasChanges |-> ~preferencesEqual(DEFAULT_PREFERENCES, DEFAULT_PREFERENCES),
     memoDeps |-> 0, load |-> "pending", saves |-> <<>>, objects |-> 0,
     last |-> "mount"]

\* useMemo(() => !preferencesEqual(preferences, originalPrefsRef.current),
\*         [preferences]) as a render evaluates it.
RenderPreferences(h) ==
    IF h.preferences.id # h.memoDeps
    THEN [h EXCEPT !.hasChanges = ~preferencesEqual(h.preferences.value,
                                                    h.originalPrefsRef.value),
                   !.memoDeps = h.preferences.id]
    ELSE h

NewObject(h, value) == [id |-> h.objects + 1, value |-> value]

\* The values a preferences window can give to the keys it edits.
PreferenceUpdates ==
    [key : {"recording_mode"}, value : {"push-to-talk", "toggle"}]
    \cup [key : {"show_indicator"}, value : BOOLEAN]
    \cup [key : {"spoken_languages"}, value : {<<"en">>, <<"en", "hi">>, <<"hi", "en">>}]

\* { ...prev, [key]: value }
Spread(prev, update) == [prev EXCEPT ![update.key] = update.value]

\* What the backend may have stored.
StoredPreferences ==
    {DEFAULT_PREFERENCES,
     Spread(DEFAULT_PREFERENCES, [key |-> "spoken_languages", value |-> <<"en", "hi">>]),
     Spread(DEFAULT_PREFERENCES, [key |-> "recording_mode", value |-> "push-to-talk"])}

\* Lines 55-59 and 64: getPreferences() resolved.
LoadResolves(prefs) ==
    /\ preferencesHook.load = "pending"
    /\ preferencesHook.objects < MaxObjects
    /\ LET h      == preferencesHook
           merged == NewObject(h, prefs)
       IN  preferencesHook' =
               RenderPreferences([h EXCEPT !.preferences = merged,
                                           !.originalPrefsRef = merged,
                                           !.error = JsNull, !.isLoading = FALSE,
                                           !.load = "settled", !.objects = @ + 1,
                                           !.last = "loaded"])
    /\ UNCHANGED othersThanPreferences

\* Lines 60-64: getPreferences() rejected.
LoadRejects ==
    /\ preferencesHook.load = "pending"
    /\ preferencesHook' =
           RenderPreferences([preferencesHook EXCEPT !.error = "error", !.isLoading = FALSE,
                                                     !.load = "settled",
                                                     !.last = "load failed"])
    /\ UNCHANGED othersThanPreferences

\* Lines 77-82.
updatePreference(update) ==
    /\ preferencesHook.objects < MaxObjects
    /\ LET h == preferencesHook
       IN  preferencesHook' =
               RenderPreferences([h EXCEPT !.preferences =
                                               NewObject(h, Spread(h.preferences.value, update)),
                                           !.objects = @ + 1,
                                           !.last = IF Spread(h.preferences.value, update)
                                                       = h.preferences.value
                                                    THEN "updated to the same value"
                                                    ELSE "updated"])
    /\ UNCHANGED othersThanPreferences

\* Lines 85-89: up to the await of updatePreferences(preferences).
savePreferences ==
    /\ Len(preferencesHook.saves) < MaxSaves
    /\ LET h == preferencesHook
       IN  preferencesHook' =
               RenderPreferences([h EXCEPT !.isSaving = TRUE, !.error = JsNull,
                                           !.saves = Append(@, [by |-> "savePreferences",
                                                                preferences |-> h.preferences]),
                                           !.last = "saving"])
    /\ UNCHANGED othersThanPreferences

\* Lines 107-112: up to the await of updatePreferences(newPrefs).
saveUpdates(update) ==
    /\ Len(preferencesHook.saves) < MaxSaves
    /\ preferencesHook.objects < MaxObjects
    /\ LET h        == preferencesHook
           newPrefs == NewObject(h, Spread(h.preferences.value, update))
       IN  preferencesHook' =
               RenderPreferences([h EXCEPT !.preferences = newPrefs, !.isSaving = TRUE,
                                           !.objects = @ + 1,
                                           !.saves = Append(@, [by |-> "saveUpdates",
                                                                preferences |-> newPrefs]),
                                           !.last = "saving updates"])
    /\ UNCHANGED othersThanPreferences

Without(seq, k) == SubSeq(seq, 1, k - 1) \o SubSeq(seq, k + 1, Len(seq))

\* Lines 90-91 and 97, or 113 and 118: updatePreferences resolved.
SaveResolves(k) ==
    /\ k \in 1..Len(preferencesHook.saves)
    /\ LET h    == preferencesHook
           save == h.saves[k]
       IN  preferencesHook' =
               RenderPreferences([h EXCEPT !.originalPrefsRef =
                                               IF save.by = "savePreferences"
                                               THEN save.preferences ELSE @,
                                           !.isSaving = FALSE,
                                           !.saves = Without(@, k),
                                           !.last = IF save.by = "savePreferences"
                                                    THEN "saved" ELSE "updates saved"])
    /\ UNCHANGED othersThanPreferences

\* Lines 92-97, or 114-118: updatePreferences rejected.
SaveRejects(k) ==
    /\ k \in 1..Len(preferencesHook.saves)
    /\ LET h    == preferencesHook
           save == h.saves[k]
       IN  preferencesHook' =
               RenderPreferences([h EXCEPT !.error = IF save.by = "savePreferences"
                                                     THEN "error" ELSE @,
                                           !.isSaving = FALSE,
                                           !.saves = Without(@, k),
                                           !.last = "save failed"])
    /\ UNCHANGED othersThanPreferences

\* Lines 102-104: setPreferences(originalPrefsRef.current); a state set to
\* the object it already is makes no render.
resetPreferences ==
    /\ LET h == preferencesHook
       IN  preferencesHook' =
               RenderPreferences([h EXCEPT !.preferences = h.originalPrefsRef,
                                           !.last = "reset"])
    /\ UNCHANGED othersThanPreferences

InitPreferences ==
    /\ ProxyAbsent
    /\ preferencesHook = usePreferencesMounted
    /\ timerHook = NotRendered
    /\ recordingHook = NotRendered
    /\ overlayWindow = NotRendered
    /\ helperCalls = NotRendered

NextPreferences ==
    \/ \E prefs \in StoredPreferences : LoadResolves(prefs)
    \/ LoadRejects
    \/ \E update \in PreferenceUpdates : updatePreference(update)
    \/ savePreferences
    \/ \E update \in PreferenceUpdates : saveUpdates(update)
    \/ \E k \in 1..MaxSaves : SaveResolves(k)
    \/ \E k \in 1..MaxSaves : SaveRejects(k)
    \/ resetPreferences

SpecPreferences == InitPreferences /\ [][NextPreferences]_vars

(***************************************************************************)
(* The state helpers of types/recording.ts, and a component that asks them *)
(* about every state it is told of                                         *)
(***************************************************************************)
RecordingStates == {"idle", "recording", "transcribing", "enhancing", "transforming", "error"}

canStartRecording(state) == state = "idle" \/ state = "error"

canStopRecording(state) == state = "recording"

\* isProcessing as the copy of the file without the state 'transforming' has it.
isProcessing_withoutTransforming(state) == state = "transcribing" \/ state = "enhancing"

isProcessing(state) ==
    state = "transcribing" \/ state = "enhancing" \/ state = "transforming"

\* How many states the component is told of.
MaxCalls == 3

AskHelpers(state) ==
    /\ Len(helperCalls) < MaxCalls
    /\ helperCalls' = Append(helperCalls,
                             [state             |-> state,
                              canStartRecording |-> canStartRecording(state),
                              canStopRecording  |-> canStopRecording(state),
                              isProcessing      |-> isProcessing(state)])
    /\ UNCHANGED othersThanHelpers

InitHelpers ==
    /\ ProxyAbsent
    /\ preferencesHook = NotRendered
    /\ timerHook = NotRendered
    /\ recordingHook = NotRendered
    /\ overlayWindow = NotRendered
    /\ helperCalls = <<>>

NextHelpers == \E state \in RecordingStates : AskHelpers(state)

SpecHelpers == InitHelpers /\ [][NextHelpers]_vars

(***************************************************************************)
(* useTimer                                                                *)
(*                                                                         *)
(* React queues the state updates of a handler and renders afterwards:     *)
(* setElapsedMs and setIsRunning write the queued values, Render commits   *)
(* them and runs the effect of lines 38-57 when isRunning has changed.     *)
(***************************************************************************)
\* No queued update, no frame, no start time.
None == -1

MaxClock == 2
\* How many animation frames an instance may request.
MaxFrames == 3
\* The durations, in ms, the backend reports and a caller starts from.
BackendDurations == {5}
InitialDurations == {None, 10}

\*   queuedElapsedMs, queuedIsRunning  the updates not yet rendered
\*   frames      the requested animation frames that have not fired
\*   requested   how many frames have been requested
\*   clock       performance.now()
\*   last, before, sinceReset   history: the last call, the elapsed time
\*               before it, and what followed the last reset()
useTimerMounted(initialDurationMs) ==
    [elapsedMs |-> IF initialDurationMs = None THEN 0 ELSE initialDurationMs,
     isRunning |-> FALSE, queuedElapsedMs |-> None, queuedIsRunning |-> None,
     intervalRef |-> None, startTimeRef |-> None, offsetRef |-> 0,
     frames |-> {}, requested |-> 0, clock |-> 0,
     last |-> "mount", before |-> 0, sinceReset |-> ""]

\* The values the next render will show.
NextElapsedMs(h) == IF h.queuedElapsedMs = None THEN h.elapsedMs ELSE h.queuedElapsedMs
NextIsRunning(h) == IF h.queuedIsRunning = None THEN h.isRunning ELSE h.queuedIsRunning = 1

\* requestAnimationFrame(tick): intervalRef.current = the new frame
RequestFrame(h) ==
    [h EXCEPT !.intervalRef = h.requested + 1, !.frames = @ \cup {h.requested + 1},
              !.requested = @ + 1]

\* Lines 19-25
StopTimer(h) ==
    [h EXCEPT !.queuedIsRunning = 0,
              !.frames = IF h.intervalRef # None THEN @ \ {h.intervalRef} ELSE @,
              !.intervalRef = None]

\* Lines 10-17; backendDurationMs is None for undefined
start(backendDurationMs) ==
    /\ LET h == timerHook
       IN  timerHook' =
               [h EXCEPT !.offsetRef = IF backendDurationMs # None
                                       THEN backendDurationMs ELSE @,
                         !.startTimeRef = h.clock,
                         !.queuedIsRunning = 1,
                         !.last = "start", !.before = NextElapsedMs(h),
                         !.sinceReset = IF backendDurationMs = None /\ @ = "reset"
                                        THEN "start" ELSE ""]
    /\ UNCHANGED othersThanTimer

stop ==
    /\ timerHook' = [StopTimer(timerHook) EXCEPT !.last = "stop",
                                                 !.before = NextElapsedMs(timerHook),
                                                 !.sinceReset = ""]
    /\ UNCHANGED othersThanTimer

\* Lines 27-31
reset ==
    /\ timerHook' = [StopTimer(timerHook) EXCEPT !.queuedElapsedMs = 0, !.offsetRef = 0,
                                                 !.last = "reset",
                                                 !.before = NextElapsedMs(timerHook),
                                                 !.sinceReset = "reset"]
    /\ UNCHANGED othersThanTimer

\* Lines 33-36
syncWithBackend(backendDurationMs) ==
    /\ LET h == timerHook
       IN  timerHook' = [h EXCEPT !.offsetRef = backendDurationMs,
                                  !.startTimeRef = h.clock,
                                  !.last = "syncWithBackend",
                                  !.before = NextElapsedMs(h),
                                  !.sinceReset = ""]
    /\ UNCHANGED othersThanTimer

\* The render of the queued updates. When isRunning has changed, the cleanup
\* of lines 52-56 runs if the effect had started the loop, and the effect
\* starts it if isRunning is now true.
RenderTimer ==
    /\ timerHook.queuedElapsedMs # None \/ timerHook.queuedIsRunning # None
    /\ LET h        == timerHook
           running  == NextIsRunning(h)
           rendered == [h EXCEPT !.elapsedMs = NextElapsedMs(h), !.isRunning = running,
                                 !.queuedElapsedMs = None, !.queuedIsRunning = None]
           cleaned  == IF h.isRunning /\ h.intervalRef # None
                       THEN [rendered EXCEPT !.frames = @ \ {h.intervalRef}]
                       ELSE rendered
       IN  /\ (running /\ ~h.isRunning) => h.requested < MaxFrames
           /\ timerHook' = IF running = h.isRunning THEN rendered
                           ELSE IF running THEN RequestFrame(cleaned)
                           ELSE cleaned
    /\ UNCHANGED othersThanTimer

\* Lines 41-48: a requested frame fires.
AnimationFrame(f) ==
    /\ f \in timerHook.frames
    /\ timerHook.requested < MaxFrames
    /\ LET h      == [timerHook EXCEPT !.frames = @ \ {f}]
           ticked == IF h.startTimeRef # None
                     THEN [h EXCEPT !.queuedElapsedMs =
                                        h.offsetRef + (h.clock - h.startTimeRef)]
                     ELSE h
       IN  timerHook' = [RequestFrame(ticked) EXCEPT !.last = "frame"]
    /\ UNCHANGED othersThanTimer

ClockAdvances ==
    /\ timerHook.clock < MaxClock
    /\ timerHook' = [timerHook EXCEPT !.clock = @ + 1]
    /\ UNCHANGED othersThanTimer

InitTimer ==
    /\ ProxyAbsent
    /\ preferencesHook = NotRendered
    /\ timerHook \in {useTimerMounted(initial) : initial \in InitialDurations}
    /\ recordingHook = NotRendered
    /\ overlayWindow = NotRendered
    /\ helperCalls = NotRendered

NextTimer ==
    \/ \E d \in {None} \cup BackendDurations : start(d)
    \/ stop
    \/ reset
    \/ \E d \in BackendDurations : syncWithBackend(d)
    \/ RenderTimer
    \/ \E f \in 1..MaxFrames : AnimationFrame(f)
    \/ ClockAdvances

SpecTimer == InitTimer /\ [][NextTimer]_vars

(***************************************************************************)
(* useRecordingState, with the backend it talks to                         *)
(*                                                                         *)
(* The backend holds the recording state, answers get_overlay_state with   *)
(* it, and emits state-changed to the listeners registered at that moment. *)
(* invoke() and listen() are requests the backend handles in its own time; *)
(* the reply of invoke and the events reach the webview on separate paths. *)
(***************************************************************************)
Undefined == [is |-> "undefined"]
JsNullValue == [is |-> "null"]
Some(v) == [is |-> "value", v |-> v]

\* value ?? fallback
NullishCoalesce(value, fallback) ==
    IF value.is \in {"undefined", "null"} THEN fallback ELSE value

\* value || 0, for a number or undefined
OrZero(value) ==
    IF value.is = "value" THEN value.v ELSE 0

\* value || "", for a string or undefined
OrEmpty(value) ==
    IF value.is = "value" THEN value.v ELSE ""

\* The payloads of state-changed the backend emits.
StateChangeEvents ==
    {[state |-> "idle", message |-> Undefined, recording_duration_ms |-> Undefined],
     [state |-> "recording", message |-> Undefined, recording_duration_ms |-> Some(5)],
     [state |-> "transcribing", message |-> Some("Transcribing..."),
      recording_duration_ms |-> Undefined]}

\* How many times the backend changes its state.
MaxEvents == 2

\* The backend and the two paths to the webview.
\*   current   the state the backend is in
\*   changes   how often it has changed
\*   snapshot  get_overlay_state: "asked", "replied" (reply on its way),
\*             "resolved", "rejected"
\*   listener  listen('state-changed'): "asked", "registered"
\*   events    the emitted events on their way to the listener, in order
BackendStarted(event) ==
    [current |-> event, changes |-> 0, snapshot |-> "asked", reply |-> event,
     listener |-> "asked", events |-> <<>>]

Emit(b, event) ==
    [b EXCEPT !.current = event, !.changes = @ + 1,
              !.events = IF b.listener = "registered"
                         THEN Append(@, [payload |-> event, change |-> b.changes + 1])
                         ELSE @]

\* Lines 6-8 and 10-23: the hook after its first render and its effect.
\*   applied   which change of the backend each update showed (history)
useRecordingStateMounted(event) ==
    [state |-> "idle", message |-> JsNullValue, durationMs |-> JsNullValue,
     backend |-> BackendStarted(event), snapshotOf |-> 0, applied |-> <<>>]

\* Lines 13-15 and 20-22
SetFromEvent(h, event, change) ==
    [h EXCEPT !.state = event.state,
              !.message = NullishCoalesce(event.message, JsNullValue),
              !.durationMs = NullishCoalesce(event.recording_duration_ms, JsNullValue),
              !.applied = Append(@, change)]

BackendChanges(event) ==
    /\ recordingHook.backend.changes < MaxEvents
    /\ event # recordingHook.backend.current
    /\ recordingHook' = [recordingHook EXCEPT !.backend = Emit(@, event)]
    /\ UNCHANGED othersThanRecording

\* The backend handles get_overlay_state.
SnapshotTaken ==
    /\ recordingHook.backend.snapshot = "asked"
    /\ recordingHook' = [recordingHook EXCEPT !.backend.snapshot = "replied",
                                              !.backend.reply = recordingHook.backend.current,
                                              !.snapshotOf = recordingHook.backend.changes]
    /\ UNCHANGED othersThanRecording

\* Lines 12-16: the promise of getOverlayState() is fulfilled.
SnapshotResolves ==
    /\ recordingHook.backend.snapshot = "replied"
    /\ recordingHook' =
           [SetFromEvent(recordingHook, recordingHook.backend.reply, recordingHook.snapshotOf)
               EXCEPT !.backend.snapshot = "resolved"]
    /\ UNCHANGED othersThanRecording

\* Line 16: .catch(console.error)
SnapshotRejects ==
    /\ recordingHook.backend.snapshot = "asked"
    /\ recordingHook' = [recordingHook EXCEPT !.backend.snapshot = "rejected"]
    /\ UNCHANGED othersThanRecording

\* The backend handles the listen() of line 19.
ListenerRegistered ==
    /\ recordingHook.backend.listener = "asked"
    /\ recordingHook' = [recordingHook EXCEPT !.backend.listener = "registered"]
    /\ UNCHANGED othersThanRecording

\* Lines 19-23: the callback of onStateChanged.
EventDelivered ==
    /\ recordingHook.backend.events # <<>>
    /\ LET e == Head(recordingHook.backend.events)
       IN  recordingHook' =
               [SetFromEvent(recordingHook, e.payload, e.change)
                   EXCEPT !.backend.events = Tail(@)]
    /\ UNCHANGED othersThanRecording

InitRecording ==
    /\ ProxyAbsent
    /\ preferencesHook = NotRendered
    /\ timerHook = NotRendered
    /\ recordingHook \in {useRecordingStateMounted(event) : event \in StateChangeEvents}
    /\ overlayWindow = NotRendered
    /\ helperCalls = NotRendered

NextRecording ==
    \/ \E event \in StateChangeEvents : BackendChanges(event)
    \/ SnapshotTaken
    \/ SnapshotResolves
    \/ SnapshotRejects
    \/ ListenerRegistered
    \/ EventDelivered

SpecRecording == InitRecording /\ [][NextRecording]_vars

(***************************************************************************)
(* OverlayWindow: the elapsed-time interval                                *)
(*                                                                         *)
(* timerIntervalRef holds the id of the interval the component believes    *)
(* to be running; intervals is the set of intervals the window really has. *)
(* The callbacks of getOverlayState() and onStateChanged() are closures:   *)
(* they run whether or not the component is still mounted.                 *)
(***************************************************************************)
\* Lines 47-62 and 105-141: the component after its first render and its
\* two effects.
\*   cleanup      the variable of line 127: "undefined" or "unsub"
\*   lastApplied  the state of the latest applyState call (history)
OverlayWindowMounted(event) ==
    [mounted |-> TRUE,
     overlayState |-> [state |-> "idle", message |-> "", recordingDurationMs |-> 0,
                       mode |-> "dictation"],
     elapsedSeconds |-> 0,
     backendOffsetRef |-> 0,
     timerIntervalRef |-> None,
     intervals |-> {},
     nextInterval |-> 1,
     cleanup |-> "undefined",
     lastApplied |-> "none",
     backend |-> BackendStarted(event)]

\* clearInterval(id)
clearInterval(w, id) == [w EXCEPT !.intervals = @ \ {id}]

\* Lines 65-79
startTimer(w, backendDurationMs) ==
    LET cleared == IF w.timerIntervalRef # None
                   THEN clearInterval(w, w.timerIntervalRef) ELSE w
    IN  [cleared EXCEPT !.backendOffsetRef = backendDurationMs,
                        !.timerIntervalRef = w.nextInterval,
                        !.intervals = @ \cup {w.nextInterval},
                        !.nextInterval = @ + 1,
                        !.elapsedSeconds = IF w.mounted THEN backendDurationMs \div 1000
                                           ELSE @]

\* Lines 82-87
stopTimer(w) ==
    IF w.timerIntervalRef # None
    THEN [clearInterval(w, w.timerIntervalRef) EXCEPT !.timerIntervalRef = None]
    ELSE w

\* Lines 90-103; a state update of an unmounted component is dropped.
applyState(w, state, message, recordingDurationMs) ==
    LET shown == [w EXCEPT !.overlayState =
                              IF w.mounted
                              THEN [state |-> state, message |-> OrEmpty(message),
                                    recordingDurationMs |-> recordingDurationMs,
                                    mode |-> "dictation"]
                              ELSE @,
                           !.lastApplied = state]
    IN  IF state = "recording"
        THEN startTimer(shown, recordingDurationMs)
        ELSE stopTimer(shown)

\* Lines 111-116 and 130-135
ApplyEvent(w, event) ==
    applyState(w, event.state, event.message, OrZero(event.recording_duration_ms))

OverlayBackendChanges(event) ==
    /\ overlayWindow.backend.changes < MaxEvents
    /\ event # overlayWindow.backend.current
    /\ overlayWindow' = [overlayWindow EXCEPT !.backend = Emit(@, event)]
    /\ UNCHANGED othersThanOverlay

\* The backend handles get_overlay_state.
OverlaySnapshotTaken ==
    /\ overlayWindow.backend.snapshot = "asked"
    /\ overlayWindow' = [overlayWindow EXCEPT !.backend.snapshot = "replied",
                                              !.backend.reply = overlayWindow.backend.current]
    /\ UNCHANGED othersThanOverlay

\* Lines 108-116: the await of getOverlayState() returns.
InitResolves ==
    /\ overlayWindow.backend.snapshot = "replied"
    /\ overlayWindow' = [ApplyEvent(overlayWindow, overlayWindow.backend.reply)
                            EXCEPT !.backend.snapshot = "resolved"]
    /\ UNCHANGED othersThanOverlay

\* Lines 117-119
InitRejects ==
    /\ overlayWindow.backend.snapshot = "asked"
    /\ overlayWindow' = [overlayWindow EXCEPT !.backend.snapshot = "rejected"]
    /\ UNCHANGED othersThanOverlay

\* The backend handles the listen() of line 129.
OverlayListenerRegistered ==
    /\ overlayWindow.backend.listener = "asked"
    /\ overlayWindow' = [overlayWindow EXCEPT !.backend.listener = "registered"]
    /\ UNCHANGED othersThanOverlay

\* Lines 136-138: the promise of onStateChanged() is fulfilled.
ListenResolves ==
    /\ overlayWindow.backend.listener = "registered"
    /\ overlayWindow.cleanup = "undefined"
    /\ overlayWindow' = [overlayWindow EXCEPT !.cleanup = "unsub"]
    /\ UNCHANGED othersThanOverlay

\* Lines 129-135: the callback of onStateChanged.
OverlayEventDelivered ==
    /\ overlayWindow.backend.events # <<>>
    /\ overlayWindow' = [ApplyEvent(overlayWindow, Head(overlayWindow.backend.events).payload)
                            EXCEPT !.backend.events = Tail(@)]
    /\ UNCHANGED othersThanOverlay

\* Lines 123 and 140: the cleanups of the two effects. cleanup?.() removes
\* the listener only when line 137 has run.
Unmount ==
    /\ overlayWindow.mounted
    /\ LET stopped == [stopTimer(overlayWindow) EXCEPT !.mounted = FALSE]
       IN  overlayWindow' =
               IF overlayWindow.cleanup = "unsub"
               THEN [stopped EXCEPT !.backend.listener = "removed",
                                    !.backend.events = <<>>]
               ELSE stopped
    /\ UNCHANGED othersThanOverlay

InitOverlay ==
    /\ ProxyAbsent
    /\ preferencesHook = NotRendered
    /\ timerHook = NotRendered
    /\ recordingHook = NotRendered
    /\ overlayWindow \in {OverlayWindowMounted(event) : event \in StateChangeEvents}
    /\ helperCalls = NotRendered

NextOverlay ==
    \/ \E event \in StateChangeEvents : OverlayBackendChanges(event)
    \/ OverlaySnapshotTaken
    \/ InitResolves
    \/ InitRejects
    \/ OverlayListenerRegistered
    \/ ListenResolves
    \/ OverlayEventDelivered
    \/ Unmount

SpecOverlay == InitOverlay /\ [][NextOverlay]_vars

(***************************************************************************)
(* Properties                                                              *)
(***************************************************************************)
ContentTypeOf(request) == headersGet(request.headers, "Content-Type")

\* Whether gate k (1..5) of section 4.2 fails for the request.
GateFails(k, request) ==
    CASE k = 1 -> request.method # "POST"
      [] k = 2 -> Len(env.GROQ_API_KEY) = 0
      [] k = 3 -> LET declared == headersGet(request.headers, "Content-Length")
                  IN  /\ ~Not(declared)
                      /\ ~parseInt(declared, 0).nan
                      /\ parseInt(declared, 0).v > MAX_REQUEST_SIZE
      [] k = 4 -> request.path \notin AudioPaths \cup ChatPaths
      [] k = 5 -> ~validateContentType(ContentTypeOf(request), request.path).valid

FailingGates(request) == {k \in 1..5 : GateFails(k, request)}

\* The response section 4.2 gives for a failure of gate k.
GateResponse(k, request) ==
    CASE k = 1 -> jsonError("Method not allowed", 405)
      [] k = 2 -> jsonError("Proxy not configured", 500)
      [] k = 3 -> jsonError("Request too large", 413)
      [] k = 4 -> jsonError("Unknown endpoint", 404)
      [] k = 5 -> jsonError(validateContentType(ContentTypeOf(request), request.path).error, 400)
      [] k = 6 -> jsonError("Unauthorized", 401)

\* The verifier returned invalid for the invocation.
VerificationFailed(i) == 6 \in Range(i.gates) /\ ~i.sig.valid /\ ~i.sig.threw

\* The byte strings the model hashes and the messages it signs.
HashedInputs == Bodies \cup {Audio1, Audio2}

SignedInputs ==
    {<<secret, encode(Message(Str(t), n, toHex(SHA256(b))))>> :
        secret \in {encode(AppSecret), encode(ForeignSecret)},
        t \in Timestamps, n \in {<<>>, Nonce1, Nonce2}, b \in HashedInputs}

\* The stand-ins for SHA-256 and HMAC-SHA256 map different inputs of the
\* model to different digests.
NoDigestCollision ==
    /\ Cardinality({SHA256(b) : b \in HashedInputs}) = Cardinality(HashedInputs)
    /\ Cardinality({HMAC(k[1], k[2]) : k \in SignedInputs}) = Cardinality(SignedInputs)

\* C1: a request other than OPTIONS gets the response of the first gate that
\* fails, in the order method, credential, size, route, content type,
\* signature, and no gate after that one is evaluated.
C1_FirstFailingGate ==
    \A s \in Slots :
        LET i       == inv[s]
            failing == FailingGates(i.request)
        IN  (i.pc # "idle" /\ i.request.method # "OPTIONS") =>
              /\ i.gates = [k \in 1..Len(i.gates) |-> k]
              /\ failing # {} =>
                    /\ Len(i.gates) <= Min(failing)
                    /\ i.pc \in {"hashIP", "done"}
                    /\ i.pc = "done" =>
                          /\ i.response = GateResponse(Min(failing), i.request)
                          /\ Len(i.gates) = Min(failing)
              /\ (failing = {} /\ i.pc = "done" /\ VerificationFailed(i)) =>
                    i.response = GateResponse(6, i.request)

\* An oversized request to an unknown path was answered 413.
C1_Witness ==
    \E s \in Slots :
        /\ inv[s].pc = "done"
        /\ {3, 4} \subseteq FailingGates(inv[s].request)
        /\ ~GateFails(1, inv[s].request) /\ ~GateFails(2, inv[s].request)
        /\ inv[s].response.status = 413

\* C2: a request is handed to the upstream only after all six gates have
\* passed for it, and at most once.
C2_ForwardOnlyAfterGates ==
    \A s \in Slots :
        LET i == inv[s]
        IN  /\ i.outbound # <<>> =>
                  /\ Len(i.outbound) = 1
                  /\ FailingGates(i.request) = {}
                  /\ i.sig.valid
            /\ i.pc = "upstream" =>
                  verifyHmacSignature(i.request, i.request.body, env,
                                      IsMultipart(ContentTypeOf(i.request)),
                                      i.nowRead).valid

\* A request has been handed to the upstream.
C2_Witness == \E s \in Slots : inv[s].pc = "upstream" /\ Len(inv[s].outbound) = 1

TimestampOf(request) == headersGet(request.headers, "X-Murmur-Timestamp")
NonceOf(request) == headersGet(request.headers, "X-Murmur-Nonce")
SignatureHeaderOf(request) == headersGet(request.headers, "X-Murmur-Signature")

\* The invocation's verifier has just returned (its result is in sig).
Verified(i) == i.pc = "verifying"

\* The timestamp reads as a number of seconds within the window around t.
Fresh(timestamp, t) ==
    /\ timestamp # Null
    /\ ~parseInt(timestamp, 10).nan
    /\ Abs(t - parseInt(timestamp, 10).v) <= MAX_AGE_SECONDS

\* A JSON request that carries the three headers, whose timestamp is fresh
\* when the verifier reads the clock, and whose signature is the lowercase-hex
\* HMAC of timestamp:nonce:hex(SHA-256(raw body)) under the configured secret.
SignedJson(i) ==
    /\ Verified(i)
    /\ ~IsMultipart(ContentTypeOf(i.request))
    /\ Len(env.MURMUR_APP_SECRET) > 0
    /\ NonceOf(i.request) # Null
    /\ SignatureHeaderOf(i.request) # Null
    /\ Fresh(TimestampOf(i.request), i.nowRead)
    /\ SignatureHeaderOf(i.request) =
          ClientSign(env.MURMUR_APP_SECRET, TimestampOf(i.request), NonceOf(i.request),
                     toHex(SHA256(i.request.body)))

ExpectedOf(i) ==
    ClientSign(env.MURMUR_APP_SECRET, TimestampOf(i.request), NonceOf(i.request),
               BodyHash(i.request, i.bodyBytes, IsMultipart(ContentTypeOf(i.request))).hash)

Compared(i) == Verified(i) /\ "compare" \in Range(i.sig.steps)

\* C6: the comparison finds the received signature valid exactly when it
\* equals the expected lowercase-hex HMAC character for character.
C6_ExactMatch ==
    \A s \in Slots :
        Compared(inv[s]) =>
            (inv[s].sig.valid <=> SignatureHeaderOf(inv[s].request) = ExpectedOf(inv[s]))

\* A signature that differs from the expected one in its last character only
\* has been found invalid.
C6_Witness ==
    \E s \in Slots :
        LET received == SignatureHeaderOf(inv[s].request)
            expected == ExpectedOf(inv[s])
        IN  /\ Compared(inv[s])
            /\ Len(received) = Len(expected)
            /\ \A k \in 1..Len(expected) : (received[k] = expected[k]) <=> (k < Len(expected))
            /\ ~inv[s].sig.valid

\* C5: whatever the verifier's reason, a request that passed gates 1-5 and
\* failed verification gets one and the same response: 401, the body
\* {"error":"Unauthorized"}, the CORS headers.
C5_UniformUnauthorized ==
    \A s \in Slots :
        LET i == inv[s]
        IN  (i.pc = "done" /\ VerificationFailed(i)) =>
              /\ i.response.status = 401
              /\ i.response.body = <<"json", "error", "Unauthorized">>
              /\ i.response.headers = ("Content-Type" :> "application/json") @@ corsHeaders
              /\ i.outbound = <<>>

\* A multipart request without an audio file has been answered.
C5_Witness ==
    \E s \in Slots :
        /\ inv[s].pc = "done"
        /\ VerificationFailed(inv[s])
        /\ inv[s].sig.error = "Missing audio file in request"
        /\ inv[s].response.kind = "response"

\* The multipart body has exactly one field named file, a file part.
OneFile(contentType, body) ==
    LET form == formData(contentType, body)
    IN  /\ form.ok
        /\ Cardinality({k \in 1..Len(form.entries) : form.entries[k].name = FieldFile}) = 1
        /\ formDataGet(form.entries, FieldFile).isFile

FileOf(contentType, body) == formDataGet(formData(contentType, body).entries, FieldFile).data

\* The multipart envelopes of the model: Content-Type and body.
Envelopes ==
    {e \in {CtMultipartA, CtMultipartB} \X MultipartBodies : OneFile(e[1], e[2])}

WithEnvelope(request, e) ==
    [request EXCEPT !.body = e[2], !.headers = [@ EXCEPT !["Content-Type"] = e[1]]]

\* C7: a multipart request signed over the raw bytes of its file field (fresh
\* timestamp, the three headers present) is found valid, and another
\* envelope around the same file bytes - other fields added, removed or
\* changed, another boundary, another part order - gets the same result.
C7_FileOnlySigned ==
    \A s \in Slots :
        LET i  == inv[s]
            ct == ContentTypeOf(i.request)
        IN  (Verified(i) /\ <<ct, i.request.body>> \in Envelopes) =>
              /\ ( /\ Len(env.MURMUR_APP_SECRET) > 0
                   /\ ~HeadersMissing(TimestampOf(i.request), NonceOf(i.request),
                                      SignatureHeaderOf(i.request))
                   /\ Fresh(TimestampOf(i.request), i.nowRead)
                   /\ SignatureHeaderOf(i.request) =
                         ClientSign(env.MURMUR_APP_SECRET, TimestampOf(i.request),
                                    NonceOf(i.request),
                                    toHex(SHA256(FileOf(ct, i.request.body)))) )
                 => i.sig.valid
              /\ \A e \in Envelopes :
                    FileOf(e[1], e[2]) = FileOf(ct, i.request.body) =>
                        LET other == verifyHmacSignature(WithEnvelope(i.request, e), e[2],
                                                         env, TRUE, i.nowRead)
                        IN  other.valid = i.sig.valid /\ other.threw = i.sig.threw

\* A request whose envelope (boundary B, a model field after the file) differs
\* from the file bytes that were signed has been found valid.
C7_Witness ==
    \E s \in Slots :
        /\ Verified(inv[s])
        /\ inv[s].request.body = MultipartBody(BoundaryB, <<FilePart(Audio1), ModelField>>)
        /\ inv[s].sig.valid

\* C8: nothing is remembered of earlier requests: a request that was accepted
\* before and whose timestamp is still in the window is accepted again, and
\* every acceptance is forwarded.
C8_ReplayAccepted ==
    \A s \in Slots :
        LET i == inv[s]
        IN  i.acceptedBefore > 0 =>
              /\ (Verified(i) /\ Fresh(TimestampOf(i.request), i.nowRead)) => i.sig.valid
              /\ (i.pc \in {"upstream", "readText", "done"} /\ i.sig.valid)
                    => Len(i.outbound) = 1

\* A request that had been forwarded before has been forwarded once more.
C8_Witness ==
    \E s \in Slots : inv[s].acceptedBefore > 0 /\ Len(inv[s].outbound) = 1

C10_OutboundRequest ==
    \A s \in Slots :
        \A k \in 1..Len(inv[s].outbound) :
            LET i == inv[s]
                o == i.outbound[k]
            IN  /\ o.method = "POST"
                /\ o.body = i.request.body
                /\ o.body = i.bodyBytes
                /\ DOMAIN o.headers = {"Authorization", "Content-Type"}
                /\ o.headers["Authorization"] =
                      <<"B","e","a","r","e","r"," ">> \o env.GROQ_API_KEY
                /\ o.headers["Content-Type"] = i.request.headers["Content-Type"]
                /\ o.headers["Authorization"] # i.request.headers["Authorization"]

\* A multipart request that carried an Authorization header of its own has
\* been handed to the upstream.
C10_Witness ==
    \E s \in Slots :
        /\ Len(inv[s].outbound) = 1
        /\ "Authorization" \in DOMAIN inv[s].request.headers
        /\ "X-Murmur-Signature" \in DOMAIN inv[s].request.headers
        /\ IsMultipart(ContentTypeOf(inv[s].request))

\* C11: when the upstream call completed with a response and its body was
\* read, the relay's response has the upstream's status, the upstream's body
\* text, the upstream's Content-Type (application/json when there is none)
\* and the CORS headers; an error status is passed through, not made a 502.
C11_PassThrough ==
    \A s \in Slots :
        LET i == inv[s]
        IN  (i.pc = "done" /\ i.reply # NoReply /\ i.io = "") =>
              /\ i.response.kind = "response"
              /\ i.response.status = i.reply.status
              /\ i.response.body = <<"text", i.reply.body>>
              /\ DOMAIN i.response.headers = DOMAIN corsHeaders \cup {"Content-Type"}
              /\ i.response.headers["Content-Type"] =
                    (IF i.reply.contentType = "" THEN "application/json"
                     ELSE i.reply.contentType)
              /\ \A h \in DOMAIN corsHeaders : i.response.headers[h] = corsHeaders[h]

\* An upstream 500 without a Content-Type has been relayed as a 500.
C11_Witness ==
    \E s \in Slots :
        /\ inv[s].pc = "done"
        /\ inv[s].reply.status = 500 /\ inv[s].reply.contentType = ""
        /\ inv[s].response.status = 500

\* C12: when the upstream fetch rejects or reading the upstream's body fails,
\* the response is 502 {"error":"Proxy request failed"} with the CORS
\* headers, and no invocation ever hands more than one request to the
\* upstream.
C12_BadGatewayNoRetry ==
    \A s \in Slots :
        LET i == inv[s]
        IN  /\ Len(i.outbound) <= 1
            /\ (i.io \in {"fetch", "text"}) =>
                  /\ i.pc = "done"
                  /\ Len(i.outbound) = 1
                  /\ i.response.kind = "response"
                  /\ i.response.status = 502
                  /\ i.response.body = <<"json", "error", "Proxy request failed">>
                  /\ i.response.headers = ("Content-Type" :> "application/json") @@ corsHeaders

\* Reading the body of the upstream's reply has failed.
C12_Witness ==
    \E s \in Slots :
        /\ inv[s].io = "text" /\ inv[s].reply # NoReply
        /\ inv[s].response.status = 502 /\ Len(inv[s].outbound) = 1

\* C13: every response the relay returns, whatever the path that built it,
\* has the four CORS headers with their fixed values.
C13_CorsEverywhere ==
    \A s \in Slots :
        LET r == inv[s].response
        IN  r.kind = "response" =>
              /\ {"Access-Control-Allow-Origin", "Access-Control-Allow-Methods",
                  "Access-Control-Allow-Headers", "Access-Control-Max-Age"}
                    \subseteq DOMAIN r.headers
              /\ r.headers["Access-Control-Allow-Origin"] = "*"
              /\ r.headers["Access-Control-Allow-Methods"] = "POST, OPTIONS"
              /\ r.headers["Access-Control-Allow-Headers"] =
                    "Content-Type, X-Murmur-Timestamp, X-Murmur-Nonce, X-Murmur-Signature"
              /\ r.headers["Access-Control-Max-Age"] = "86400"

\* An upstream reply with a Content-Type of its own has been relayed.
C13_Witness ==
    \E s \in Slots :
        /\ inv[s].response.kind = "response"
        /\ inv[s].reply.contentType = "text/plain"
        /\ inv[s].response.status = 200

\* C14: an OPTIONS request, whatever its path, headers and declared size and
\* whether or not the credential is configured, is answered at once with a
\* body-less response that has the CORS headers: no gate is evaluated, the
\* body is not read, nothing is verified and nothing is sent upstream.
C14_PreflightBypass ==
    \A s \in Slots :
        LET i == inv[s]
        IN  i.request.method = "OPTIONS" =>
              /\ i.pc = "done"
              /\ i.response.kind = "response"
              /\ i.response.body = <<"null">>
              /\ i.response.headers = corsHeaders
              /\ i.gates = <<>>
              /\ i.bodyBytes = <<>> /\ i.io = ""
              /\ i.sig = NoSig /\ i.nowRead = 0
              /\ i.outbound = <<>>

\* An unsigned OPTIONS request to an unknown path that declares more than the
\* maximum size has been answered by a relay without a credential.
C14_Witness ==
    \E s \in Slots :
        /\ inv[s].request.method = "OPTIONS"
        /\ inv[s].request.path = "/other"
        /\ "X-Murmur-Signature" \notin DOMAIN inv[s].request.headers
        /\ headersGet(inv[s].request.headers, "Content-Length") =
              numToString(MAX_REQUEST_SIZE + 1)
        /\ env.GROQ_API_KEY = <<>>
        /\ inv[s].response.kind = "response"

\* C15: a POST to a relay with a credential that declares more than
\* 10 * 1024 * 1024 bytes gets 413 "Request too large" with no body read, no
\* verification and no upstream request; one that declares exactly that many
\* bytes, or declares nothing, goes on to the route gate.
C15_DeclaredSize ==
    \A s \in Slots :
        LET i == inv[s]
            declared == headersGet(i.request.headers, "Content-Length")
        IN  ( /\ i.request.method = "POST" /\ Len(env.GROQ_API_KEY) > 0
              /\ i.pc \notin {"idle", "hashIP"} ) =>
              /\ declared \in {numToString(10 * 1024 * 1024 + 1), numToString(11 * 1024 * 1024)}
                   => /\ i.pc = "done"
                      /\ i.response = jsonError("Request too large", 413)
                      /\ i.gates = <<1, 2, 3>>
                      /\ i.bodyBytes = <<>> /\ i.sig = NoSig /\ i.outbound = <<>>
              /\ declared \in {Null, numToString(10 * 1024 * 1024)}
                   => /\ i.response.status # 413
                      /\ 4 \in Range(i.gates)

\* A request that declares 11 MiB has been turned away, and so has one that
\* declares one byte more than the maximum.
C15_Witness ==
    \E s \in Slots :
        /\ inv[s].response.status = 413
        /\ headersGet(inv[s].request.headers, "Content-Length") = numToString(11 * 1024 * 1024)
        /\ inv[s].request.path \in AudioPaths

\* C16: the path alone chooses the upstream: the two transcription paths are
\* forwarded to the transcription endpoint only, the two chat paths to the
\* chat endpoint only, and any other path is never forwarded and is answered
\* 404 "Unknown endpoint" once the route is looked at.
C16_RouteByPath ==
    \A s \in Slots :
        LET i == inv[s]
            path == i.request.path
        IN  /\ \A k \in 1..Len(i.outbound) :
                 \/ /\ path \in {"/v1/audio/transcriptions", "/whisper"}
                    /\ i.outbound[k].url =
                          "https://api.groq.com/openai/v1/audio/transcriptions"
                 \/ /\ path \in {"/v1/chat/completions", "/chat"}
                    /\ i.outbound[k].url = "https://api.groq.com/openai/v1/chat/completions"
            /\ ( /\ path \notin {"/v1/audio/transcriptions", "/whisper",
                                 "/v1/chat/completions", "/chat"}
                 /\ 4 \in Range(i.gates) )
               => /\ i.pc = "done"
                  /\ i.response = jsonError("Unknown endpoint", 404)
                  /\ i.outbound = <<>>

\* A request to /chat whose Content-Type is a multipart one that also names
\* application/json has gone to the chat endpoint.
C16_Witness ==
    \E s \in Slots :
        /\ Len(inv[s].outbound) = 1
        /\ inv[s].request.path = "/chat"
        /\ ContentTypeOf(inv[s].request) = CtMultipartJson
        /\ inv[s].outbound[1].url = "https://api.groq.com/openai/v1/chat/completions"

\* The messages of the relay's error responses.
ErrorMessages ==
    {"Method not allowed", "Proxy not configured", "Request too large", "Unknown endpoint",
     "Missing Content-Type header", "Invalid Content-Type for audio endpoint",
     "Invalid Content-Type for chat endpoint", "Invalid request", "Unauthorized",
     "Proxy request failed"}

\* C17: every non-OPTIONS invocation that ends without relaying an upstream
\* reply ends with a returned response whose body is {"error": m}, m one of
\* the fixed messages, and whose headers include the CORS headers: no
\* exception leaves the handler.
C17_EveryFailureStructured ==
    \A s \in Slots :
        LET i == inv[s]
        IN  ( /\ i.pc = "done" /\ i.request.method # "OPTIONS"
              /\ ~(i.reply # NoReply /\ i.io = "") ) =>
              /\ i.response.kind = "response"
              /\ i.response.body[1] = "json"
              /\ i.response.body[3] \in ErrorMessages
              /\ \A h \in DOMAIN corsHeaders : h \in DOMAIN i.response.headers

\* An invocation of a relay without a signing secret has ended in the
\* exception of importKey.
C17_Witness ==
    \E s \in Slots :
        /\ inv[s].pc = "done" /\ inv[s].sig.threw
        /\ env.MURMUR_APP_SECRET = <<>>
        /\ inv[s].response.kind = "exception"

\* C18: every invocation that has passed all gates and waits for the
\* upstream eventually ends, with the upstream's reply or a 502, even when
\* the upstream never answers.
C18_EventuallyAnswered ==
    \A s \in Slots : (inv[s].pc = "upstream") ~> (inv[s].pc = "done")

\* An invocation has handed its request to the upstream and waits for it.
C18_Witness ==
    \E s \in Slots :
        /\ inv[s].pc = "upstream" /\ Len(inv[s].outbound) = 1
        /\ inv[s].sig.valid /\ inv[s].response.kind = "none"

\* What the relay builds by itself: the preflight response and the error
\* responses; the texts it logs.
RelayMade ==
    {[kind |-> "response", status |-> 200, headers |-> corsHeaders, body |-> <<"null">>]}
    \cup {[kind |-> "response", status |-> st,
           headers |-> ("Content-Type" :> "application/json") @@ corsHeaders,
           body |-> <<"json", "error", m>>] :
             st \in {400, 401, 404, 405, 413, 500, 502}, m \in ErrorMessages}

LogTexts ==
    {"GROQ_API_KEY not configured", "Invalid content type from ", "Auth failed from ",
     "Proxy error for "}

LogDetails ==
    {"", "error", "Missing Content-Type header", "Invalid Content-Type for audio endpoint",
     "Invalid Content-Type for chat endpoint", "Missing authentication headers",
     "Request timestamp expired or invalid", "Missing audio file in request",
     "Failed to parse multipart request", "Invalid signature"}

\* The hashed IP as the salt and the client's address alone determine it.
HashedIPOf(request, salt) ==
    LET ip == IF "CF-Connecting-IP" \in DOMAIN request.headers
                 /\ Len(request.headers["CF-Connecting-IP"]) > 0
              THEN request.headers["CF-Connecting-IP"]
              ELSE <<"u","n","k","n","o","w","n">>
        s0 == IF Len(salt) > 0 THEN salt
              ELSE <<"m","u","r","m","u","r","-","d","e","f","a","u","l","t","-",
                     "s","a","l","t">>
    IN  SubSeq(toHex(SHA256(encode(s0 \o ip))), 1, 16)

Secrets == {env.GROQ_API_KEY, env.MURMUR_APP_SECRET} \ {<<>>}

\* C19: whatever the credential and the signing secret are, a response the
\* relay builds is one of a fixed set, a relayed one is made of the
\* upstream's reply and the CORS headers, every log line is a fixed text
\* with the hashed IP and a fixed detail, and the credential is found in the
\* Authorization header of the outbound request and nowhere else; the
\* secret is found nowhere.
C19_SecretsStayInside ==
    \A s \in Slots :
        LET i == inv[s]
        IN  /\ i.response.kind = "response" =>
                 IF i.reply # NoReply /\ i.io = ""
                 THEN /\ i.response.body = <<"text", i.reply.body>>
                      /\ i.response.headers =
                            ("Content-Type" :> IF i.reply.contentType = ""
                                               THEN "application/json"
                                               ELSE i.reply.contentType) @@ corsHeaders
                 ELSE i.response \in RelayMade
            /\ \A k \in 1..Len(i.log) :
                 /\ i.log[k].text \in LogTexts
                 /\ i.log[k].detail \in LogDetails
                 /\ i.log[k].hashedIP \in {<<>>, HashedIPOf(i.request, env.IP_HASH_SALT)}
                 /\ \A secret \in Secrets : ~includes(i.log[k].hashedIP, secret)
            /\ \A k \in 1..Len(i.outbound) :
                 /\ DOMAIN i.outbound[k].headers = {"Authorization", "Content-Type"}
                 /\ i.outbound[k].headers["Authorization"] =
                       <<"B","e","a","r","e","r"," ">> \o env.GROQ_API_KEY
                 /\ i.outbound[k].headers["Content-Type"] = ContentTypeOf(i.request)
                 /\ i.outbound[k].body = i.request.body
                 /\ i.outbound[k].url \in {GROQ_ENDPOINTS.whisper, GROQ_ENDPOINTS.chat}
                 /\ i.outbound[k].method = "POST"

\* A relay with the second credential and the second secret has logged a
\* failed verification and answered it.
C19_Witness ==
    \E s \in Slots :
        /\ env.GROQ_API_KEY = ApiKey2 /\ env.MURMUR_APP_SECRET = ForeignSecret
        /\ inv[s].pc = "done"
        /\ Len(inv[s].log) = 1
        /\ inv[s].log[1].text = "Auth failed from "
        /\ Len(inv[s].log[1].hashedIP) = 16
        /\ inv[s].response.status = 401

\* The verifier's steps in the order of the code.
VerifierSteps == <<"headers", "timestamp", "hash", "importKey", "sign", "compare">>

\* One of the three authentication headers is absent or empty.
AuthHeaderMissing(request) ==
    \E h \in {"X-Murmur-Timestamp", "X-Murmur-Nonce", "X-Murmur-Signature"} :
        h \notin DOMAIN request.headers \/ request.headers[h] = <<>>

\* C20: the verifier checks the headers, then the timestamp, then computes
\* the body hash, then the HMAC and the comparison; it stops at the first
\* check that fails, reports that check's reason and performs no later step.
C20_FailFastOrder ==
    \A s \in Slots :
        LET i == inv[s]
            missing == AuthHeaderMissing(i.request)
            stale   == ~missing /\ ~Fresh(TimestampOf(i.request), i.nowRead)
        IN  Verified(i) =>
              /\ \E n \in 1..Len(VerifierSteps) : i.sig.steps = SubSeq(VerifierSteps, 1, n)
              /\ missing => /\ i.sig.error = "Missing authentication headers"
                            /\ i.sig.steps = <<"headers">>
              /\ stale => /\ i.sig.error = "Request timestamp expired or invalid"
                          /\ i.sig.steps = <<"headers", "timestamp">>
              /\ (~missing /\ ~stale) =>
                    /\ Len(i.sig.steps) >= 3
                    /\ i.sig.error \in {"Missing audio file in request",
                                        "Failed to parse multipart request"}
                          <=> i.sig.steps = <<"headers", "timestamp", "hash">>
                    /\ i.sig.error = "Invalid signature" <=> 
                          (i.sig.steps = VerifierSteps /\ ~i.sig.valid)

\* A multipart request with a stale timestamp and no file field has been
\* rejected for its timestamp.
C20_Witness ==
    \E s \in Slots :
        /\ Verified(inv[s])
        /\ inv[s].request.body = MultipartBody(BoundaryA, <<ModelField>>)
        /\ ~AuthHeaderMissing(inv[s].request)
        /\ TimestampOf(inv[s].request) = Ts(T0 - MAX_AGE_SECONDS - 1)
        /\ inv[s].sig.error = "Request timestamp expired or invalid"

C22_StrategyMatchesRoute ==
    \A s \in Slots :
        LET i  == inv[s]
            ct == ContentTypeOf(i.request)
            signedOver(bytes) ==
                ClientSign(env.MURMUR_APP_SECRET, TimestampOf(i.request),
                           NonceOf(i.request), toHex(SHA256(bytes)))
        IN  (Verified(i) /\ i.sig.valid) =>
              /\ i.request.path \in {"/chat", "/v1/chat/completions"}
                    => SignatureHeaderOf(i.request) = signedOver(i.request.body)
              /\ i.request.path \in {"/whisper", "/v1/audio/transcriptions"}
                    => /\ formData(ct, i.request.body).ok
                       /\ SignatureHeaderOf(i.request) = signedOver(FileOf(ct, i.request.body))

\* A chat-route request has been accepted on a signature over its file part
\* and handed to the chat endpoint with fields the signature does not cover.
C22_Witness ==
    \E s \in Slots :
        /\ inv[s].request.path = "/chat"
        /\ Len(inv[s].outbound) = 1
        /\ inv[s].request.body = MultipartBody(BoundaryA, <<FilePart(Audio1), ModelField>>)
        /\ SignatureHeaderOf(inv[s].request) =
              ClientSign(env.MURMUR_APP_SECRET, TimestampOf(inv[s].request),
                         NonceOf(inv[s].request), toHex(SHA256(Audio1)))
        /\ inv[s].outbound[1].body = inv[s].request.body

\* The form has no 'file' entry, or its first 'file' entry is a plain string,
\* or the body does not parse as multipart with the declared boundary.
NoAudioFile(contentType, body) ==
    LET form == formData(contentType, body)
        file == formDataGet(form.entries, FieldFile)
    IN  ~form.ok \/ file.null \/ ~file.isFile

\* C23: a multipart request with the three headers and a fresh timestamp whose
\* form has no 'file' field, or a plain string for it, or whose body does not
\* parse, is found invalid before any HMAC step, is answered 401, and is
\* never handed to the upstream.
C23_NoFileRejected ==
    \A s \in Slots :
        LET i  == inv[s]
            ct == ContentTypeOf(i.request)
        IN  (/\ 6 \in Range(i.gates)
             /\ IsMultipart(ct)
             /\ ~AuthHeaderMissing(i.request)
             /\ Fresh(TimestampOf(i.request), i.nowRead)
             /\ NoAudioFile(ct, i.request.body)) =>
              /\ ~i.sig.valid /\ ~i.sig.threw
              /\ i.sig.steps = <<"headers", "timestamp", "hash">>
              /\ i.sig.error = IF formData(ct, i.request.body).ok
                               THEN "Missing audio file in request"
                               ELSE "Failed to parse multipart request"
              /\ i.outbound = <<>>
              /\ i.pc \in {"verifying", "done"}
              /\ i.pc = "done" => i.response = jsonError("Unauthorized", 401)

\* A request whose 'file' field is a plain string, signed over that string's
\* bytes, has been answered 401.
C23_Witness ==
    \E s \in Slots :
        /\ inv[s].pc = "done"
        /\ inv[s].request.body = MultipartBody(BoundaryA, <<FileAsString>>)
        /\ ContentTypeOf(inv[s].request) = CtMultipartA
        /\ SignatureHeaderOf(inv[s].request) =
              ClientSign(env.MURMUR_APP_SECRET, TimestampOf(inv[s].request),
                         NonceOf(inv[s].request), toHex(SHA256(Audio1)))
        /\ inv[s].sig.error = "Missing audio file in request"
        /\ inv[s].response.status = 401
        /\ inv[s].outbound = <<>>

\* C24: a request whose body is larger than MAX_REQUEST_SIZE is never read
\* in full, never verified, and never handed to the upstream, whether or not
\* it announces its size.
C24_SizeLimitEnforced ==
    \A s \in Slots :
        LET i == inv[s]
        IN  (i.pc # "idle" /\ i.request.actualSize > MAX_REQUEST_SIZE) =>
              /\ 6 \notin Range(i.gates)
              /\ i.sig = NoSig
              /\ i.outbound = <<>>

\* A chunked request of 11 MiB, without Content-Length, has been read,
\* verified and handed to the upstream.
C24_Witness ==
    \E s \in Slots :
        /\ inv[s].pc = "upstream"
        /\ inv[s].request.actualSize = 11 * 1024 * 1024
        /\ headersGet(inv[s].request.headers, "Content-Length") = Null
        /\ inv[s].sig.valid
        /\ Len(inv[s].outbound) = 1

\* The client's address as the request carries it.
RawIP(request) == headersGet(request.headers, "CF-Connecting-IP")

\* C25: a log line that names the caller holds the first 16 hex characters
\* of SHA-256(salt + address) and not the address; the address is in no
\* outbound request and no response, and nothing of an invocation is kept
\* once it is over.
C25_OnlyHashedIPLogged ==
    \A s \in Slots :
        LET i   == inv[s]
            raw == RawIP(i.request)
        IN  /\ \A k \in 1..Len(i.log) :
                 /\ i.log[k].text \in LogTexts
                 /\ i.log[k].detail \in LogDetails
                 /\ i.log[k].text # "GROQ_API_KEY not configured" =>
                       /\ i.log[k].hashedIP = HashedIPOf(i.request, env.IP_HASH_SALT)
                       /\ Len(i.log[k].hashedIP) = 16
                       /\ Range(i.log[k].hashedIP) \subseteq Range(HexDigits)
                       /\ ~Not(raw) => ~includes(i.log[k].hashedIP, raw)
                 /\ i.log[k].text = "GROQ_API_KEY not configured" => i.log[k].hashedIP = <<>>
            /\ \A k \in 1..Len(i.outbound) :
                 DOMAIN i.outbound[k].headers = {"Authorization", "Content-Type"}
            /\ i.response.kind = "response" =>
                 IF i.reply # NoReply /\ i.io = ""
                 THEN i.response.body = <<"text", i.reply.body>>
                 ELSE i.response \in RelayMade
            /\ i.pc = "idle" => i = Idle

\* A failed verification of a request from 1.2 has been logged under the
\* configured salt.
C25_Witness ==
    \E s \in Slots :
        /\ inv[s].pc = "done"
        /\ RawIP(inv[s].request) = Ip4
        /\ env.IP_HASH_SALT = Salt1
        /\ Len(inv[s].log) = 1
        /\ inv[s].log[1].text = "Auth failed from "
        /\ inv[s].log[1].hashedIP = HashedIPOf(inv[s].request, Salt1)
        /\ inv[s].log[1].hashedIP # HashedIPOf(inv[s].request, <<>>)

\* C26: hasChanges is true exactly when the current preferences differ, field
\* by field and in the order of spoken_languages, from those last loaded or
\* last saved with success.
C26_HasChangesExact ==
    preferencesHook.hasChanges <=>
        ~preferencesEqual(preferencesHook.preferences.value,
                          preferencesHook.originalPrefsRef.value)

\* savePreferences has succeeded, the preferences are the saved ones, and
\* hasChanges is still true.
C26_Witness ==
    /\ preferencesHook.last = "saved"
    /\ preferencesHook.preferences = preferencesHook.originalPrefsRef
    /\ ~preferencesHook.isSaving
    /\ preferencesHook.hasChanges

\* C27: canStartRecording holds exactly for idle and error, canStopRecording
\* exactly for recording, isProcessing exactly for transcribing, enhancing
\* and transforming; for each of the six states exactly one of the three
\* holds.
C27_HelpersPartition ==
    \A k \in 1..Len(helperCalls) :
        LET c == helperCalls[k]
        IN  /\ c.canStartRecording <=> c.state \in {"idle", "error"}
            /\ c.canStopRecording <=> c.state = "recording"
            /\ c.isProcessing <=> c.state \in {"transcribing", "enhancing", "transforming"}
            /\ Cardinality({h \in {"canStartRecording", "canStopRecording", "isProcessing"} :
                                c[h]}) = 1

\* The helpers have been asked about 'transforming' and about 'error'.
C27_Witness ==
    \E j, k \in 1..Len(helperCalls) :
        /\ helperCalls[j].state = "transforming" /\ helperCalls[j].isProcessing
        /\ helperCalls[k].state = "error" /\ helperCalls[k].canStartRecording

\* Nothing is queued: what the hook shows is what it holds.
TimerSettled == timerHook.queuedElapsedMs = None /\ timerHook.queuedIsRunning = None

\* C28: reset() leaves elapsedMs = 0, isRunning = false, the offset 0 and no
\* frame requested; a start() without argument that follows it counts up
\* from 0; syncWithBackend on a timer that is not running leaves elapsedMs
\* as it was.
C28_ResetThenStart ==
    LET h == timerHook
    IN  /\ h.last = "reset" =>
              /\ NextElapsedMs(h) = 0
              /\ ~NextIsRunning(h)
              /\ h.offsetRef = 0
              /\ h.frames = {} /\ h.intervalRef = None
        /\ h.sinceReset = "start" =>
              /\ h.offsetRef = 0
              /\ NextElapsedMs(h) <= h.clock - h.startTimeRef
              /\ (TimerSettled /\ h.isRunning) => h.frames # {}
        /\ (h.last = "syncWithBackend" /\ ~NextIsRunning(h)) => NextElapsedMs(h) = h.before

\* reset() and start() were called on a running timer before React rendered:
\* the timer shows isRunning and 0 ms, and no frame will ever fire.
C28_Witness ==
    /\ timerHook.sinceReset = "start"
    /\ TimerSettled
    /\ timerHook.isRunning
    /\ timerHook.frames = {}
    /\ timerHook.elapsedMs = 0
    /\ timerHook.clock > timerHook.startTimeRef

\* The snapshot has been applied, the listener is registered and every
\* emitted event has been delivered.
RecordingQuiet ==
    /\ recordingHook.backend.snapshot = "resolved"
    /\ recordingHook.backend.listener = "registered"
    /\ recordingHook.backend.events = <<>>

\* C29: once the snapshot has been applied and all emitted events have been
\* delivered, the hook shows the state the backend is in: a snapshot never
\* replaces a newer event, and no change made after the snapshot is lost.
C29_ShowsBackendState ==
    LET h == recordingHook
        b == h.backend.current
    IN  /\ \A j, k \in 1..Len(h.applied) : j < k => h.applied[j] <= h.applied[k]
        /\ RecordingQuiet =>
              /\ h.state = b.state
              /\ h.message = NullishCoalesce(b.message, JsNullValue)
              /\ h.durationMs = NullishCoalesce(b.recording_duration_ms, JsNullValue)

\* The event of a change was shown, then the snapshot taken before that
\* change replaced it: the hook shows a state the backend has left.
C29_Witness ==
    /\ RecordingQuiet
    /\ recordingHook.applied = <<1, 0>>
    /\ recordingHook.backend.changes = 1
    /\ recordingHook.state # recordingHook.backend.current.state

\* C30: while the overlay is mounted an interval is active exactly when the
\* last applied state is 'recording'; there is never more than one active
\* interval; and once the overlay is unmounted no interval is active.
C30_IntervalFollowsState ==
    LET w == overlayWindow
    IN  /\ Cardinality(w.intervals) <= 1
        /\ w.mounted => (w.intervals # {} <=> w.lastApplied = "recording")
        /\ ~w.mounted => w.intervals = {}

\* The overlay is unmounted, nothing is left to arrive, and an interval
\* started by a callback that ran after the unmount is still active.
C30_Witness ==
    /\ ~overlayWindow.mounted
    /\ overlayWindow.backend.snapshot = "resolved"
    /\ overlayWindow.backend.events = <<>>
    /\ overlayWindow.backend.changes = MaxEvents
    /\ overlayWindow.intervals = {overlayWindow.timerIntervalRef}

====
